---- MODULE Spec2Model ----
(***************************************************************************)
(* Capture-and-replay engine of the Tello navigation project.              *)
(*                                                                         *)
(*   RealTimeDroneController (src/test_keyboard.py): the movement          *)
(*   recorder, the waypoint builder, the session serializer and the        *)
(*   capture session run().                                                *)
(*   NavigationInterface (src/navigation_interface.py) inside the          *)
(*   navigation mode of TelloNavigationApp (src/main.py): file selection,  *)
(*   the destination prompt, the replay loop and the cleanup. The planner  *)
(*   and the replayer it calls are in module waypoint_navigation, which is *)
(*   not part of the sources; they follow the design document.             *)
(*                                                                         *)
(* Abstractions: wall-clock time is replaced by the elapsed duration of    *)
(* the movement being stopped; uuid4() by the creation index of            *)
(* the event; datetime.now() by the same creation index; a telemetry       *)
(* answer by the list of its ';'-separated parts.                          *)
(***************************************************************************)
EXTENDS Integers, Sequences, FiniteSets, TLC

VARIABLES
    is_connected, is_flying,       \* vehicle flags of the controller
    current_movement,              \* <<>> (None) or <<descriptor>>
    add_movement,                  \* flag set by start_movement
    current_waypoint_movements,    \* the pending cluster
    waypoints,                     \* the waypoint list
    waypoint_counter,
    created,                       \* history: events built by stop_movement
    last,                          \* history: the last call and its I/O
    pc,                            \* where run() is
    activeMovementKey, x_pressed,  \* locals of handle_keypress
    steps,                         \* history: the cleanup steps run() took
    document,                      \* <<>> or <<the document written>>
    data_file,                     \* the file at self.data_file: [exists, chunks]
    printed,                       \* what the end of run() has printed
    interrupted,                   \* history: a KeyboardInterrupt arrived
    nav_session,                   \* navigation: the loaded waypoint list
    nav_current,                   \* NavigationContext: current waypoint index
    nav_from, nav_dest,            \* the replay under way or last made
    nav_plan,                      \* its resolved plan
    nav_issued,                    \* history: the commands it has issued
    nav_pc,                        \* where the navigation loop is
    nav_pose,                      \* the vehicle: position and heading
    nav_start,                     \* history: the pose when the replay began
    nav_trips,                     \* history: the last two completed replays
    loop_count,                    \* local of _navigation_loop
    nav_files,                     \* the waypoint files found
    nav_destinations,              \* the list print_navigation_options gave
    nav_input,                     \* history: the line read in this round
    nav_request,                   \* history: ids given to navigate_to_waypoint
    nav_result,                    \* history: how the last navigation ended
    nav_battery,                   \* history: the last battery answer at a prompt
    app_landed,                    \* history: _cleanup sent the land command
    nav_run                        \* NavigationInterface.run: [drone, called, last, exit]

recVars == <<is_connected, is_flying, current_movement, add_movement,
             current_waypoint_movements, waypoints, waypoint_counter,
             created, last>>

runVars == <<pc, activeMovementKey, x_pressed, steps, document, data_file,
             printed, interrupted>>

uiVars == <<loop_count, nav_files, nav_destinations, nav_input, nav_request,
            nav_result, nav_battery, app_landed, nav_run>>

navVars == <<nav_session, nav_current, nav_from, nav_dest, nav_plan,
             nav_issued, nav_pc, nav_pose, nav_start, nav_trips, uiVars>>

vars == <<recVars, runVars, navVars>>

\* ------------------------------------------------------------------ bounds
MaxEvents == 2        \* events created in one behaviour
MaxWaypoints == 2     \* waypoints marked in one behaviour
MaxYaw == 180         \* headings reported to a session about to be saved
MaxNavWaypoints == 3  \* waypoints of a loaded session
MaxSegment == 2       \* events in one waypoint of a loaded session
MaxReplays == 2       \* replays completed in one navigation loop
MaxFiles == 2         \* waypoint files found in the working directory

\* ------------------------------------------------------- program constants
movement_speed == 30
rotation_speed == 30

\* ------------------------------------------------------------- vocabulary
MoveDirections == {"forward", "backward", "left", "right"}
LiftDirections == {"up", "down"}
RotateDirections == {"anticlockwise", "clockwise"}

\* <<movement_type, direction>> pairs passed to start_movement when the
\* recorder is called directly: every type, and two directions of the
\* journaled ones
Movements ==
    {<<"move", "forward">>, <<"move", "left">>, <<"lift", "up">>,
     <<"lift", "down">>, <<"rotate", "clockwise">>}

\* the heading the vehicle reports when the recorder is driven
YawSamples == {-90}

\* one ';'-separated part "key:value" of a telemetry answer;
\* ok: the value is a non-empty integer literal
Part(k, isInt, v) == [key |-> k, ok |-> isInt, val |-> v]

\* answers to "attitude?": well-formed, without a usable yaw, or no answer
AttitudeAnswer(y) == <<Part("pitch", TRUE, 0), Part("yaw", TRUE, y)>>
MalformedAnswers == {<<Part("yaw", FALSE, 0)>>}
AttitudeOutcomes ==
    {[kind |-> "ok", parts |-> AttitudeAnswer(y)] : y \in YawSamples}
        \cup {[kind |-> "ok", parts |-> p] : p \in MalformedAnswers}
        \cup {[kind |-> "raise", parts |-> <<>>]}

\* a call on the vehicle driver (or the terminal), as logged in io
Query(q) == [cmd |-> q, a |-> 0, b |-> 0, c |-> 0, d |-> 0]
Rc(lr, fb, ud, yw) == [cmd |-> "rc", a |-> lr, b |-> fb, c |-> ud, d |-> yw]

NoName == [text |-> "", n |-> 0]
Name(t) == [text |-> t, n |-> 0]
DefaultName(k) == [text |-> "Waypoint_", n |-> k]
TypedNames == {NoName, Name("A")}

\* f"{k:03d}": the decimal digits of k, zero-padded to three
Pad3(k) == <<(k \div 100) % 10, (k \div 10) % 10, k % 10>>
WaypointId(k) == [prefix |-> "WP_", digits |-> Pad3(k)]

\* ------------------------------------------------ the controller as a value
\* The fields of self that the recorder reads and writes, with the driver
\* calls the handler has made (io) and the exception leaving it (exc).
Self ==
    [current_movement |-> current_movement,
     add_movement |-> add_movement,
     current_waypoint_movements |-> current_waypoint_movements,
     waypoints |-> waypoints,
     waypoint_counter |-> waypoint_counter,
     created |-> created,
     io |-> <<>>,
     exc |-> "none"]

\* A blocking call on the driver or the terminal. Its outcome is "ok",
\* "raise" (an Exception, left to the caller's handler) or "interrupt" (a
\* KeyboardInterrupt, which no "except Exception" catches).
Call(r, entry, outcome) ==
    IF outcome = "interrupt" THEN [r EXCEPT !.exc = "KeyboardInterrupt"]
    ELSE [r EXCEPT !.io = Append(@, entry)]

RECURSIVE ParseYaw(_)
ParseYaw(parts) ==
    IF parts = <<>> THEN 0
    ELSE IF Head(parts).key = "yaw" /\ Head(parts).ok
         THEN Head(parts).val
         ELSE ParseYaw(Tail(parts))

get_drone_state_unguarded(r, att) ==
    LET r1 == Call(r, Query("attitude?"), att.kind)
        yaw == IF att.kind = "ok" THEN ParseYaw(att.parts) ELSE 0
    IN IF r1.exc # "none" THEN [r |-> r1, yaw |-> 0]
       ELSE IF att.kind = "raise" \/ att.parts \in MalformedAnswers
       THEN [r |-> [r1 EXCEPT !.exc = "Exception"], yaw |-> 0]
       ELSE [r |-> Call(Call(r1, Query("height?"), "ok"), Query("battery?"), "ok"),
             yaw |-> yaw]

\* get_drone_state: three queries, every failure replaced by a default.
\* An interrupt in any of the three leaves the same state; it is taken in
\* the first.
get_drone_state(r, att) ==
    LET r1 == Call(r, Query("attitude?"), att.kind)
        yaw == IF att.kind = "ok" THEN ParseYaw(att.parts) ELSE 0
    IN IF r1.exc # "none" THEN [r |-> r1, yaw |-> 0]
       ELSE [r |-> Call(Call(r1, Query("height?"), "ok"), Query("battery?"), "ok"),
             yaw |-> yaw]

already_moving_never(r) == FALSE

already_moving(r) == r.current_movement # <<>>

add_movement_for(old, movement_type) ==
    CASE movement_type \in {"move", "lift"} -> TRUE
      [] movement_type = "rotate" -> FALSE
      [] OTHER -> old

RcFor(movement_type, direction) ==
    CASE movement_type = "move" /\ direction = "forward" -> <<Rc(0, movement_speed, 0, 0)>>
      [] movement_type = "move" /\ direction = "backward" -> <<Rc(0, -movement_speed, 0, 0)>>
      [] movement_type = "move" /\ direction = "left" -> <<Rc(-movement_speed, 0, 0, 0)>>
      [] movement_type = "move" /\ direction = "right" -> <<Rc(movement_speed, 0, 0, 0)>>
      [] movement_type = "lift" /\ direction = "up" -> <<Rc(0, 0, movement_speed, 0)>>
      [] movement_type = "lift" /\ direction = "down" -> <<Rc(0, 0, -movement_speed, 0)>>
      [] movement_type = "rotate" /\ direction = "anticlockwise" -> <<Rc(0, 0, 0, -rotation_speed)>>
      [] movement_type = "rotate" /\ direction = "clockwise" -> <<Rc(0, 0, 0, rotation_speed)>>
      [] OTHER -> <<>>

start_movement_keeps_slot(r, direction, movement_type, att, rc) ==
    IF already_moving(r) THEN r
    ELSE
      LET s == get_drone_state(r, att)
          r1 == [s.r EXCEPT
                   !.current_movement =
                       <<[type |-> movement_type, direction |-> direction,
                          start_yaw |-> s.yaw]>>,
                   !.add_movement = add_movement_for(@, movement_type)]
          cmd == RcFor(movement_type, direction)
      IN IF s.r.exc # "none" THEN s.r
         ELSE IF cmd = <<>> THEN r1
         ELSE IF rc = "raise" THEN r1
         ELSE Call(r1, cmd[1], rc)

\* att: the outcome of the attitude query; rc: of the velocity command
start_movement(r, direction, movement_type, att, rc) ==
    IF already_moving(r) THEN r
    ELSE
      LET s == get_drone_state(r, att)
          r1 == [s.r EXCEPT
                   !.current_movement =
                       <<[type |-> movement_type, direction |-> direction,
                          start_yaw |-> s.yaw]>>,
                   !.add_movement = add_movement_for(@, movement_type)]
          cmd == RcFor(movement_type, direction)
      IN IF s.r.exc # "none" THEN s.r
         ELSE IF cmd = <<>> THEN r1
         ELSE IF rc = "raise" THEN [r1 EXCEPT !.current_movement = <<>>]
         ELSE Call(r1, cmd[1], rc)

\* time.time() - start_time: the movements of a behaviour last one and two
\* seconds in turn, so that the distances of its events differ
ElapsedSeconds(r) == 1 + (Len(r.created) % 2)

MovementEvent(r, duration) ==
    [id |-> Len(r.created) + 1,
     type |-> r.current_movement[1].type,
     direction |-> r.current_movement[1].direction,
     distance |-> movement_speed * duration,
     start_yaw |-> r.current_movement[1].start_yaw,
     timestamp |-> Len(r.created) + 1]

\* "if not self.add_movement": the movement is a rotation, not journaled
journaled_always(r) == TRUE

journaled(r) == r.add_movement

\* the zero-velocity command: a failure is caught and the call goes on
stop_rc_failure_propagates(r, rc) ==
    IF rc = "raise" THEN [r EXCEPT !.exc = "Exception"]
    ELSE Call(r, Rc(0, 0, 0, 0), rc)

stop_rc(r, rc) ==
    IF rc = "raise" THEN r ELSE Call(r, Rc(0, 0, 0, 0), rc)

stop_movement(r, rc, duration) ==
    IF r.current_movement = <<>> THEN r
    ELSE
      LET r2 == stop_rc(r, rc)
      IN IF r2.exc # "none" THEN r2
         ELSE IF ~journaled(r)
              THEN [r2 EXCEPT !.current_movement = <<>>]
              ELSE LET e == MovementEvent(r, duration)
                   IN [r2 EXCEPT
                         !.current_waypoint_movements = Append(@, e),
                         !.created = Append(@, e),
                         !.current_movement = <<>>]

\* the movement list of the new waypoint: a copy of the pending cluster
cluster_copy_drops_first(r) ==
    IF r.current_waypoint_movements = <<>> THEN <<>>
    ELSE Tail(r.current_waypoint_movements)

cluster_copy(r) == r.current_waypoint_movements

mark_waypoint_names_before_counting(r, name, auto_generated, typed) ==
    LET prompts == ~auto_generated /\ name = NoName
        r1 == IF ~prompts THEN r
              ELSE IF typed.kind = "raise" THEN [r EXCEPT !.exc = "Exception"]
              ELSE Call(r, Query("input"), typed.kind)
        name1 == IF prompts
                 THEN IF typed.name = NoName
                      THEN DefaultName(r.waypoint_counter)
                      ELSE typed.name
                 ELSE name
        counter == r.waypoint_counter + 1
        waypoint == [id |-> WaypointId(counter),
                     name |-> IF name1 = NoName THEN DefaultName(counter) ELSE name1,
                     movements_to_here |-> cluster_copy(r)]
    IN IF r1.exc # "none" THEN r1
       ELSE [r1 EXCEPT !.waypoint_counter = counter,
                       !.waypoints = Append(@, waypoint),
                       !.current_waypoint_movements = <<>>]

mark_waypoint_keeps_cluster(r, name, auto_generated, typed) ==
    LET prompts == ~auto_generated /\ name = NoName
        r1 == IF ~prompts THEN r
              ELSE IF typed.kind = "raise" THEN [r EXCEPT !.exc = "Exception"]
              ELSE Call(r, Query("input"), typed.kind)
        name1 == IF prompts
                 THEN IF typed.name = NoName
                      THEN DefaultName(r.waypoint_counter + 1)
                      ELSE typed.name
                 ELSE name
        counter == r.waypoint_counter + 1
        waypoint == [id |-> WaypointId(counter),
                     name |-> IF name1 = NoName THEN DefaultName(counter) ELSE name1,
                     movements_to_here |-> cluster_copy(r)]
    IN IF r1.exc # "none" THEN r1
       ELSE [r1 EXCEPT !.waypoint_counter = counter,
                       !.waypoints = Append(@, waypoint)]

\* typed: the outcome of the name prompt,
\*   [kind |-> "ok" | "raise" (EOFError) | "interrupt", name |-> ...]
mark_waypoint(r, name, auto_generated, typed) ==
    LET prompts == ~auto_generated /\ name = NoName
        r1 == IF ~prompts THEN r
              ELSE IF typed.kind = "raise" THEN [r EXCEPT !.exc = "Exception"]
              ELSE Call(r, Query("input"), typed.kind)
        name1 == IF prompts
                 THEN IF typed.name = NoName
                      THEN DefaultName(r.waypoint_counter + 1)
                      ELSE typed.name
                 ELSE name
        counter == r.waypoint_counter + 1
        waypoint == [id |-> WaypointId(counter),
                     name |-> IF name1 = NoName THEN DefaultName(counter) ELSE name1,
                     movements_to_here |-> cluster_copy(r)]
    IN IF r1.exc # "none" THEN r1
       ELSE [r1 EXCEPT !.waypoint_counter = counter,
                       !.waypoints = Append(@, waypoint),
                       !.current_waypoint_movements = <<>>]

PromptOutcomes ==
    {[kind |-> "ok", name |-> n] : n \in TypedNames}
        \cup {[kind |-> "raise", name |-> NoName]}

\* ------------------------------------------------------ session serializer
DirectionOffset_mirrored(direction) ==
    CASE direction = "forward" -> 0
      [] direction = "backward" -> 180
      [] direction = "left" -> 90
      [] direction = "right" -> -90
      [] OTHER -> 0

DirectionOffset(direction) ==
    CASE direction = "forward" -> 0
      [] direction = "backward" -> 180
      [] direction = "left" -> -90
      [] direction = "right" -> 90
      [] OTHER -> 0

\* "Normalize yaw to -180 to 180 range": one conditional step of 360
NormalizeYaw(yaw) ==
    IF yaw > 180 THEN yaw - 360
    ELSE IF yaw < -180 THEN yaw + 360
    ELSE yaw

ResultantYaw(start_yaw, direction) ==
    NormalizeYaw(start_yaw + DirectionOffset(direction))

ProcessedMovement_keeps_direction(movement) ==
    IF movement.type = "move"
    THEN [id |-> movement.id,
          type |-> movement.type,
          yaw |-> ResultantYaw(movement.start_yaw, movement.direction),
          direction |-> movement.direction,
          distance |-> movement.distance,
          timestamp |-> movement.timestamp]
    ELSE [id |-> movement.id,
          type |-> movement.type,
          direction |-> movement.direction,
          distance |-> movement.distance,
          timestamp |-> movement.timestamp]

\* the record written for one movement of a waypoint
ProcessedMovement(movement) ==
    IF movement.type = "move"
    THEN [id |-> movement.id,
          type |-> movement.type,
          yaw |-> ResultantYaw(movement.start_yaw, movement.direction),
          distance |-> movement.distance,
          timestamp |-> movement.timestamp]
    ELSE [id |-> movement.id,
          type |-> movement.type,
          direction |-> movement.direction,
          distance |-> movement.distance,
          timestamp |-> movement.timestamp]

ProcessedWaypoint(waypoint) ==
    [id |-> waypoint.id,
     name |-> waypoint.name,
     movements_to_here |->
         [i \in 1..Len(waypoint.movements_to_here) |->
             ProcessedMovement(waypoint.movements_to_here[i])]]

RECURSIVE SumLen(_)
SumLen(wps) ==
    IF wps = <<>> THEN 0
    ELSE Len(Head(wps).movements_to_here) + SumLen(Tail(wps))

SessionData_counts_waypoints(wps) ==
    [session_info |-> [total_waypoints |-> Len(wps),
                       total_movements |-> Len(wps)],
     waypoints |-> [i \in 1..Len(wps) |-> ProcessedWaypoint(wps[i])]]

\* the document save_to_json builds from self.waypoints
SessionData(wps) ==
    [session_info |-> [total_waypoints |-> Len(wps),
                       total_movements |-> SumLen(wps)],
     waypoints |-> [i \in 1..Len(wps) |-> ProcessedWaypoint(wps[i])]]

\* save_to_json: the document is built from the waypoints and written; a
\* failed write is caught and no document is recorded for it
save_to_json(doc, wps, w) == IF w = "ok" THEN <<SessionData(wps)>> ELSE doc

\* the destination path before anything was written: the name carries the
\* time the recorder was built, so no file is there
NoFile == [exists |-> FALSE, chunks |-> <<>>]

\* the pieces json.dump hands to f.write, in order: the session_info
\* entry, then one piece per waypoint
Chunks(data) == <<data.session_info>> \o data.waypoints

\* open(self.data_file, 'w') followed by json.dump(data, f) on the file at
\* the destination.  at = -1: open fails, the path is left as it was;
\* at = k >= 0: the file was created (or emptied) and the write failed after
\* k pieces, the with block closes it; a call that ends well wrote them all
open_and_dump(file, data, w, at) ==
    IF w = "ok" THEN [exists |-> TRUE, chunks |-> Chunks(data)]
    ELSE IF at < 0 THEN file
    ELSE [exists |-> TRUE, chunks |-> SubSeq(Chunks(data), 1, at)]

\* where a failing write stops: at open, or before the last piece
FailurePoints(data) == {-1, Len(Chunks(data)) - 1}

\* what save_to_json prints around the write; a KeyboardInterrupt is not
\* an Exception and leaves through the handler without a line
save_prints(w) ==
    CASE w = "ok" -> <<"Data saved">>
      [] w = "raise" -> <<"Error saving data">>
      [] OTHER -> <<>>

\* what save_to_json hands back to run(): it returns None on both paths of
\* the try, only a KeyboardInterrupt leaves it
save_raises(w) == IF w = "interrupt" THEN "KeyboardInterrupt" ELSE "none"

\* the lines of run() after save_to_json returned
run_prints == <<"Session complete! Data saved">>

Commit(r) ==
    /\ current_movement' = r.current_movement
    /\ add_movement' = r.add_movement
    /\ current_waypoint_movements' = r.current_waypoint_movements
    /\ waypoints' = r.waypoints
    /\ waypoint_counter' = r.waypoint_counter
    /\ created' = r.created

Last(op, r) == [op |-> op, io |-> r.io, exc |-> r.exc]

\* ------------------------------------------------------------------ Init
RecorderInit ==
    /\ is_connected = FALSE
    /\ is_flying = FALSE
    /\ current_movement = <<>>
    /\ add_movement = FALSE
    /\ current_waypoint_movements = <<>>
    /\ waypoints = <<>>
    /\ waypoint_counter = 0
    /\ created = <<>>
    /\ last = [op |-> "__init__", io |-> <<>>, exc |-> "none"]

\* no navigation is under way during capture
\* NavigationInterface.run as its caller sees it: the drone instance it is
\* given, whether it was called, the last vehicle command it has called
\* (<<>>: none yet), and how it ended ("none": it has not, "returned",
\* "raised")
NoRun == [drone |-> "tello", called |-> FALSE, last |-> <<>>, exit |-> "none"]

\* run, or what it calls, calls the vehicle with cmd
vehicle_call(v, cmd) == [v EXCEPT !.last = <<cmd>>]

NavOff ==
    /\ nav_session = <<>>
    /\ nav_current = 0
    /\ nav_from = 0
    /\ nav_dest = 0
    /\ nav_plan = <<>>
    /\ nav_issued = <<>>
    /\ nav_pc = "off"
    /\ nav_pose = [x |-> 0, y |-> 0, z |-> 0, heading |-> 0]
    /\ nav_start = nav_pose
    /\ nav_trips = <<>>
    /\ loop_count = 0
    /\ nav_files = 0
    /\ nav_destinations = <<>>
    /\ nav_input = <<>>
    /\ nav_request = <<>>
    /\ nav_result = "none"
    /\ nav_battery = <<>>
    /\ app_landed = FALSE
    /\ nav_run = NoRun

Init ==
    /\ RecorderInit
    /\ pc = "api"
    /\ activeMovementKey = ""
    /\ x_pressed = FALSE
    /\ steps = <<>>
    /\ document = <<>>
    /\ data_file = NoFile
    /\ printed = <<>>
    /\ interrupted = FALSE
    /\ NavOff

\* ------------------------------------ the recorder called in any order
StartMovement ==
    \E m \in Movements, att \in AttitudeOutcomes, rc \in {"ok", "raise"} :
        /\ Len(created) < MaxEvents
        /\ LET r == start_movement(Self, m[2], m[1], att, rc)
           IN Commit(r) /\ last' = Last("start_movement", r)
        /\ UNCHANGED <<is_connected, is_flying, runVars, navVars>>

StopMovement ==
    \E rc \in {"ok", "raise"} :
        /\ LET r == stop_movement(Self, rc, ElapsedSeconds(Self))
           IN Commit(r) /\ last' = Last("stop_movement", r)
        /\ UNCHANGED <<is_connected, is_flying, runVars, navVars>>

MarkWaypoint ==
    \E name \in TypedNames, auto \in BOOLEAN,
       typed \in PromptOutcomes :
        /\ waypoint_counter < MaxWaypoints
        /\ LET r == mark_waypoint(Self, name, auto, typed)
           IN Commit(r) /\ last' = Last("mark_waypoint", r)
        /\ UNCHANGED <<is_connected, is_flying, runVars, navVars>>

Next == StartMovement \/ StopMovement \/ MarkWaypoint

Spec == Init /\ [][Next]_vars

\* ============================================== the capture session, run()
\* pc: where run() is
\*   "api"            the recorder is called directly (Spec)
\*   "connect" "takeoff" "enter_keys"
\*   "loop_top" "get_key"        the loop of handle_keypress
\*   "cleanup_stop" "cleanup_flush" "cleanup_land" "cleanup_end"
\*   "cleanup_save"              the finally block of run()
\*   "done"      run() has printed "Session complete"
\*   "returned"  run() returned after a failed connect or takeoff
\*   "killed"    a KeyboardInterrupt left run() uncaught

NoKey == ""
MoveKeys == {"w", "a", "s", "d"}
\* the movement keys the operator presses in a session
PressedKeys == {"w", "a", "s"}
QuitKeys == {"q", "esc"}

KeyDirection(key) ==
    CASE key = "w" -> "forward"
      [] key = "s" -> "backward"
      [] key = "a" -> "left"
      [] key = "d" -> "right"

CallOutcomes == {"ok", "raise", "interrupt"}

\* the last step of run() and the exception that ended it; the driver calls
\* are logged only when the recorder is called directly
Seen(op, r) == [op |-> op, io |-> <<>>, exc |-> r.exc]

\* the same for a step that reached the attitude query of start_movement:
\* the key, what the query and the velocity command met, and the driver
\* calls of the step
Heard(op, r, key, att, rc) ==
    [op |-> op,
     io |-> <<[cmd |-> "start_movement", key |-> key, attitude |-> att,
               rc |-> rc]>> \o r.io,
     exc |-> r.exc]

\* in a session the attitude query answers or is interrupted; until the
\* first event of the session is recorded it may also answer without a
\* usable yaw or fail
RunAttitudeOutcomes ==
    {[kind |-> "ok", parts |-> AttitudeAnswer(y)] : y \in YawSamples}
        \cup {[kind |-> "interrupt", parts |-> <<>>]}
        \cup (IF created = <<>> THEN AttitudeOutcomes ELSE {})

RunPromptOutcomes ==
    PromptOutcomes \cup {[kind |-> "interrupt", name |-> NoName]}

\* how a handler that ran to r leaves the loop of handle_keypress, or not:
\* a KeyboardInterrupt passes "except Exception" and reaches run(); an
\* Exception is caught by handle_keypress; both end the loop
AfterHandler(r, exit) ==
    /\ Commit(r)
    /\ interrupted' = (interrupted \/ r.exc = "KeyboardInterrupt")
    /\ pc' = IF r.exc # "none" \/ exit THEN "cleanup_stop" ELSE "loop_top"
    /\ UNCHANGED <<is_connected, is_flying, steps, document, data_file, printed, navVars>>

ConnectDrone ==
    /\ pc = "connect"
    /\ \E c \in CallOutcomes, b \in CallOutcomes :
        LET r1 == Call(Self, Query("connect"), c)
            r2 == IF c = "ok" /\ b # "raise"
                  THEN Call(r1, Query("battery?"), b) ELSE r1
            ok == c = "ok" /\ b # "interrupt"
        IN /\ is_connected' = ok
           /\ pc' = IF r2.exc = "KeyboardInterrupt" THEN "killed"
                    ELSE IF ok THEN "takeoff" ELSE "returned"
           /\ interrupted' = (r2.exc = "KeyboardInterrupt")
           /\ last' = Seen("connect_drone", r2)
    /\ UNCHANGED <<is_flying, current_movement, add_movement,
                   current_waypoint_movements, waypoints, waypoint_counter,
                   created, activeMovementKey, x_pressed, steps,
                   document, data_file, printed,
                   navVars>>

\* the name of the waypoint marked after takeoff
start_name_default == NoName

start_name == Name("START")

Takeoff ==
    /\ pc = "takeoff"
    /\ \E t \in CallOutcomes, sl \in {"ok", "interrupt"} :
        IF ~is_connected
        THEN /\ pc' = "returned"
             /\ last' = Seen("takeoff", Self)
             /\ UNCHANGED <<is_flying, current_movement, add_movement,
                            current_waypoint_movements, waypoints,
                            waypoint_counter, created, interrupted>>
        ELSE
          LET r1 == IF t = "raise" THEN [Self EXCEPT !.exc = "Exception"]
                    ELSE Call(Self, Query("takeoff"), t)
              r2 == IF r1.exc = "none" THEN Call(r1, Query("sleep"), sl) ELSE r1
              r3 == IF r2.exc = "none"
                    THEN mark_waypoint(r2, start_name, TRUE,
                                       [kind |-> "ok", name |-> NoName])
                    ELSE r2
          IN /\ is_flying' = (r1.exc = "none")
             /\ Commit(r3)
             /\ pc' = CASE r3.exc = "KeyboardInterrupt" -> "killed"
                        [] r3.exc = "Exception" -> "returned"
                        [] OTHER -> "enter_keys"
             /\ interrupted' = (r3.exc = "KeyboardInterrupt")
             /\ last' = Seen("takeoff", r3)
    /\ UNCHANGED <<is_connected, activeMovementKey, x_pressed, steps,
                   document, data_file, printed,
                   navVars>>

\* handle_keypress up to its loop: the terminal is put in raw mode
EnterKeyLoop ==
    /\ pc = "enter_keys"
    /\ \E tty \in {"ok", "raise"} :
        /\ pc' = IF ~is_flying THEN "cleanup_stop"
                 ELSE IF tty = "raise" THEN "cleanup_stop" ELSE "loop_top"
        /\ last' = [op |-> "handle_keypress", io |-> <<>>,
                    exc |-> IF is_flying /\ tty = "raise" THEN "Exception" ELSE "none"]
    /\ activeMovementKey' = NoKey
    /\ x_pressed' = FALSE
    /\ UNCHANGED <<is_connected, is_flying, current_movement, add_movement,
                   current_waypoint_movements, waypoints, waypoint_counter,
                   created, steps, document, data_file, printed, interrupted, navVars>>

\* the battery check at the top of an iteration, when 5 s have passed
BatteryCheck ==
    /\ pc = "loop_top"
    /\ \E b \in {"not due", "ok", "critical", "raise", "interrupt"} :
        LET r == IF b \in {"not due", "raise"} THEN
                    [Self EXCEPT !.exc = IF b = "raise" THEN "caught" ELSE "none"]
                 ELSE Call(Self, Query("battery?"),
                           IF b = "interrupt" THEN b ELSE "ok")
        IN /\ pc' = IF b \in {"critical", "interrupt"} THEN "cleanup_stop"
                    ELSE "get_key"
           /\ interrupted' = (interrupted \/ b = "interrupt")
           /\ last' = [op |-> "battery_check", io |-> <<>>,
                       exc |-> IF b = "critical" THEN "critical" ELSE r.exc]
    /\ UNCHANGED <<is_connected, is_flying, current_movement, add_movement,
                   current_waypoint_movements, waypoints, waypoint_counter,
                   created, activeMovementKey, x_pressed, steps,
                   document, data_file, printed,
                   navVars>>

\* get_key() reads nothing, fails, or is interrupted while it polls
KeyNone ==
    /\ pc = "get_key"
    /\ \E k \in CallOutcomes :
        LET r == IF k = "raise" THEN [Self EXCEPT !.exc = "Exception"]
                 ELSE Call(Self, Query("select"), k)
        IN /\ AfterHandler(r, FALSE)
           /\ last' = Seen("key:", r)
    /\ x_pressed' = FALSE
    /\ UNCHANGED activeMovementKey

KeyQuit ==
    /\ pc = "get_key"
    /\ \E key \in QuitKeys :
        /\ AfterHandler(Self, TRUE)
        /\ last' = Seen("key:quit", Self)
    /\ UNCHANGED <<activeMovementKey, x_pressed>>

KeyMark ==
    /\ pc = "get_key"
    /\ ~x_pressed
    /\ waypoint_counter < MaxWaypoints
    /\ \E rc \in CallOutcomes, typed \in RunPromptOutcomes :
        LET r1 == IF current_movement # <<>>
                  THEN stop_movement(Self, rc, ElapsedSeconds(Self)) ELSE Self
            r2 == IF r1.exc = "none"
                  THEN mark_waypoint(r1, NoName, FALSE, typed) ELSE r1
        IN /\ AfterHandler(r2, FALSE)
           /\ last' = Seen("key:x", r2)
           /\ activeMovementKey' = IF r1.exc = "none" THEN NoKey ELSE activeMovementKey
           /\ x_pressed' = (r2.exc = "none")

KeyMove ==
    /\ pc = "get_key"
    /\ Len(created) < MaxEvents
    /\ \E key \in PressedKeys, rcStop \in CallOutcomes,
          att \in RunAttitudeOutcomes, rcStart \in CallOutcomes :
        IF activeMovementKey = key
        THEN /\ AfterHandler(Self, FALSE)
             /\ last' = Seen("key:move", Self)
             /\ UNCHANGED <<activeMovementKey, x_pressed>>
        ELSE
          LET r1 == IF activeMovementKey # NoKey
                    THEN stop_movement(Self, rcStop, ElapsedSeconds(Self))
                    ELSE Self
              r2 == IF r1.exc = "none"
                    THEN start_movement(r1, KeyDirection(key), "move", att, rcStart)
                    ELSE r1
          IN /\ AfterHandler(r2, FALSE)
             /\ last' = IF r1.exc = "none" /\ ~already_moving(r1)
                        THEN Heard("key:move", r2, key, att, rcStart)
                        ELSE Seen("key:move", r2)
             /\ activeMovementKey' = IF r1.exc = "none" THEN key ELSE activeMovementKey
             /\ UNCHANGED x_pressed

\* what the terminal puts on stdin for an arrow key: ESC '[' and a letter
Arrows == {"A", "B", "C", "D"}
\* the arrow keys the operator presses in a session: up and left
PressedArrows == {"A", "D"}
ArrowSequence(a) == <<"esc", "[", a>>

\* get_key: one character of what is pending on stdin, or nothing
get_key(pending) == IF pending = <<>> THEN NoKey ELSE Head(pending)

\* the branch of the if/elif chain of handle_keypress a key takes
KeyBranch(key, xp) ==
    CASE key = NoKey -> "none"
      [] key \in QuitKeys -> "quit"
      [] key = "x" /\ ~xp -> "mark"
      [] key \in MoveKeys -> "move"
      [] OTHER -> "other"

\* an arrow key is pressed: get_key hands the first character of its
\* sequence to the chain, which takes the quit branch and leaves the loop;
\* the rest of the sequence is never read
KeyArrow ==
    /\ pc = "get_key"
    /\ \E a \in PressedArrows :
        LET key == get_key(ArrowSequence(a)) IN
        /\ KeyBranch(key, x_pressed) = "quit"
        /\ AfterHandler(Self, TRUE)
        /\ last' = [op |-> "key:arrow",
                    io |-> <<[cmd |-> "get_key", pending |-> ArrowSequence(a)]>>,
                    exc |-> "none"]
    /\ UNCHANGED <<activeMovementKey, x_pressed>>

\* any other key, and 'x' while x_pressed is set
KeyOther ==
    /\ pc = "get_key"
    /\ \E key \in {"other"} \cup (IF x_pressed THEN {"x"} ELSE {}),
          rc \in CallOutcomes :
        LET r == IF activeMovementKey # NoKey
                 THEN stop_movement(Self, rc, ElapsedSeconds(Self)) ELSE Self
        IN /\ AfterHandler(r, FALSE)
           /\ last' = Seen(IF key = "x" THEN "key:x" ELSE "key:other", r)
           /\ activeMovementKey' = IF r.exc = "none" THEN NoKey ELSE activeMovementKey
           /\ x_pressed' = IF r.exc = "none" THEN FALSE ELSE x_pressed

\* "if self.current_movement: self.stop_movement()"
cleanup_stops_never(r) == FALSE

cleanup_stops(r) == r.current_movement # <<>>

CleanupStop ==
    /\ pc = "cleanup_stop"
    /\ \E rc \in CallOutcomes :
        LET r == IF cleanup_stops(Self)
                 THEN stop_movement(Self, rc, ElapsedSeconds(Self)) ELSE Self
        IN /\ Commit(r)
           /\ steps' = IF cleanup_stops(Self) THEN Append(steps, "stop") ELSE steps
           /\ pc' = IF r.exc = "KeyboardInterrupt" THEN "killed" ELSE "cleanup_flush"
           /\ interrupted' = (interrupted \/ r.exc = "KeyboardInterrupt")
           /\ last' = Seen("cleanup_stop", r)
    /\ UNCHANGED <<is_connected, is_flying, activeMovementKey, x_pressed,
                   document, data_file, printed,
                   navVars>>

CleanupFlush ==
    /\ pc = "cleanup_flush"
    /\ LET flush == current_waypoint_movements # <<>>
           r == IF flush
                THEN mark_waypoint(Self, Name("END"), TRUE,
                                   [kind |-> "ok", name |-> NoName])
                ELSE Self
       IN /\ Commit(r)
          /\ steps' = IF flush THEN Append(steps, "flush") ELSE steps
          /\ last' = Seen("cleanup_flush", r)
    /\ pc' = "cleanup_land"
    /\ UNCHANGED <<is_connected, is_flying, activeMovementKey, x_pressed,
                   document, data_file, printed, interrupted, navVars>>

\* land(): tello.land() when flying; an Exception is caught
CleanupLand ==
    /\ pc = "cleanup_land"
    /\ \E l \in CallOutcomes :
        LET r == IF ~is_flying \/ l = "raise" THEN Self
                 ELSE Call(Self, Query("land"), l)
        IN /\ is_flying' = (is_flying /\ l # "ok")
           /\ steps' = IF is_flying THEN Append(steps, "land") ELSE steps
           /\ pc' = IF r.exc = "KeyboardInterrupt" THEN "killed" ELSE "cleanup_end"
           /\ interrupted' = (interrupted \/ r.exc = "KeyboardInterrupt")
           /\ last' = Seen("land", r)
    /\ UNCHANGED <<is_connected, current_movement, add_movement,
                   current_waypoint_movements, waypoints, waypoint_counter,
                   created, activeMovementKey, x_pressed,
                   document, data_file, printed, navVars>>

\* tello.end() under a bare except: nothing leaves it
CleanupEnd ==
    /\ pc = "cleanup_end"
    /\ \E e \in CallOutcomes :
        /\ interrupted' = (interrupted \/ e = "interrupt")
        /\ last' = [op |-> "end", io |-> <<>>, exc |-> "none"]
    /\ steps' = Append(steps, "disconnect")
    /\ pc' = "cleanup_save"
    /\ UNCHANGED <<is_connected, is_flying, current_movement, add_movement,
                   current_waypoint_movements, waypoints, waypoint_counter,
                   created, activeMovementKey, x_pressed,
                   document, data_file, printed, navVars>>

\* save_to_json(): the document is built and written; an Exception of the
\* write is caught
CleanupSave ==
    /\ pc = "cleanup_save"
    /\ \E w \in CallOutcomes :
       \E at \in IF w = "ok" THEN {Len(Chunks(SessionData(waypoints)))}
                  ELSE FailurePoints(SessionData(waypoints)) :
        /\ document' = save_to_json(document, waypoints, w)
        /\ data_file' = open_and_dump(data_file, SessionData(waypoints), w, at)
        /\ printed' = printed \o save_prints(w)
                         \o (IF save_raises(w) = "none" THEN run_prints ELSE <<>>)
        /\ pc' = IF w = "interrupt" THEN "killed" ELSE "done"
        /\ interrupted' = (interrupted \/ w = "interrupt")
        /\ last' = [op |-> "save_to_json", io |-> <<>>, exc |-> save_raises(w)]
    /\ steps' = Append(steps, "persist")
    /\ UNCHANGED <<is_connected, is_flying, current_movement, add_movement,
                   current_waypoint_movements, waypoints, waypoint_counter,
                   created, activeMovementKey, x_pressed, navVars>>

RunInit ==
    /\ RecorderInit
    /\ pc = "connect"
    /\ activeMovementKey = NoKey
    /\ x_pressed = FALSE
    /\ steps = <<>>
    /\ document = <<>>
    /\ data_file = NoFile
    /\ printed = <<>>
    /\ interrupted = FALSE
    /\ NavOff

RunNext ==
    \/ ConnectDrone \/ Takeoff \/ EnterKeyLoop
    \/ BatteryCheck \/ KeyNone \/ KeyQuit \/ KeyMark \/ KeyMove \/ KeyOther
    \/ KeyArrow
    \/ CleanupStop \/ CleanupFlush \/ CleanupLand \/ CleanupEnd \/ CleanupSave

SpecRun == RunInit /\ [][RunNext]_vars

\* ================================= the save step over every heading
\* run() about to call save_to_json, after a session of one event that was
\* flushed into the END waypoint: every journaled direction, every heading
\* the vehicle can have reported when the movement started
JournaledMovements ==
    {<<"move", d>> : d \in MoveDirections} \cup {<<"lift", d>> : d \in LiftDirections}

EncodeEvents ==
    {[id |-> 1, type |-> m[1], direction |-> m[2],
      distance |-> movement_speed, start_yaw |-> y, timestamp |-> 1]
        : m \in JournaledMovements, y \in (-MaxYaw)..MaxYaw}

EncodeInit ==
    /\ is_connected = TRUE
    /\ is_flying = FALSE
    /\ current_movement = <<>>
    /\ add_movement = TRUE
    /\ current_waypoint_movements = <<>>
    /\ \E e \in EncodeEvents :
          /\ created = <<e>>
          /\ waypoints =
                <<[id |-> WaypointId(1), name |-> Name("START"),
                   movements_to_here |-> <<>>],
                  [id |-> WaypointId(2), name |-> Name("END"),
                   movements_to_here |-> <<e>>]>>
    /\ waypoint_counter = 2
    /\ last = [op |-> "end", io |-> <<>>, exc |-> "none"]
    /\ pc = "cleanup_save"
    /\ activeMovementKey = NoKey
    /\ x_pressed = FALSE
    /\ steps = <<"stop", "flush", "land", "disconnect">>
    /\ document = <<>>
    /\ data_file = NoFile
    /\ printed = <<>>
    /\ interrupted = FALSE
    /\ NavOff

EncodeNext == CleanupSave

SpecEncode == EncodeInit /\ [][EncodeNext]_vars

\* ============================ the save step over sessions of every shape
\* run() about to call save_to_json on a recorder that holds START and up to
\* MaxWaypoints further waypoints, each with a cluster of up to MaxEvents
\* journaled events, moves and lifts in any order; the i-th event created
\* has the id, the timestamp and the duration stop_movement gives it
SaveKinds == {"move", "lift"}

SaveDirection(kind, i) ==
    IF kind = "move"
    THEN CASE i % 4 = 1 -> "forward"
           [] i % 4 = 2 -> "left"
           [] i % 4 = 3 -> "backward"
           [] OTHER -> "right"
    ELSE IF i % 2 = 1 THEN "up" ELSE "down"

\* the heading reported when the i-th movement started
SaveYaw(i) ==
    CASE i % 3 = 1 -> -90
      [] i % 3 = 2 -> 135
      [] OTHER -> 0

SaveEvent(kind, i) ==
    [id |-> i,
     type |-> kind,
     direction |-> SaveDirection(kind, i),
     distance |-> movement_speed * (1 + ((i - 1) % 2)),
     start_yaw |-> SaveYaw(i),
     timestamp |-> i]

\* the name of the k-th waypoint: typed at the prompt, or the default
SaveName(k) == IF k % 2 = 0 THEN DefaultName(k) ELSE Name("A")

KindSeqs == UNION {[1..m -> SaveKinds] : m \in 0..MaxEvents}
SaveClusterings == UNION {[1..n -> KindSeqs] : n \in 0..MaxWaypoints}

RECURSIVE EventsBefore(_, _)
EventsBefore(cs, k) ==
    IF k <= 1 THEN 0 ELSE Len(cs[k - 1]) + EventsBefore(cs, k - 1)

SaveWaypoints(cs) ==
    <<[id |-> WaypointId(1), name |-> Name("START"), movements_to_here |-> <<>>]>>
        \o [k \in 1..Len(cs) |->
               [id |-> WaypointId(k + 1),
                name |-> SaveName(k + 1),
                movements_to_here |->
                    [j \in 1..Len(cs[k]) |->
                        SaveEvent(cs[k][j], EventsBefore(cs, k) + j)]]]

RECURSIVE Journal(_)
Journal(wps) ==
    IF wps = <<>> THEN <<>>
    ELSE Head(wps).movements_to_here \o Journal(Tail(wps))

SaveInit ==
    /\ is_connected = TRUE
    /\ is_flying = FALSE
    /\ current_movement = <<>>
    /\ add_movement = TRUE
    /\ current_waypoint_movements = <<>>
    /\ \E cs \in SaveClusterings :
          /\ waypoints = SaveWaypoints(cs)
          /\ created = Journal(SaveWaypoints(cs))
          /\ waypoint_counter = Len(cs) + 1
    /\ last = [op |-> "end", io |-> <<>>, exc |-> "none"]
    /\ pc = "cleanup_save"
    /\ activeMovementKey = NoKey
    /\ x_pressed = FALSE
    /\ steps = <<"stop", "flush", "land", "disconnect">>
    /\ document = <<>>
    /\ data_file = NoFile
    /\ printed = <<>>
    /\ interrupted = FALSE
    /\ NavOff

SaveNext == CleanupSave

SpecSave == SaveInit /\ [][SaveNext]_vars

\* ===================================================== navigation (replay)
\* The planner and the replayer (module waypoint_navigation) follow the
\* design of sections 4.4 and 4.5; the loop around them is
\* NavigationInterface._navigation_loop.
\*
\* nav_pc: "off" (capture), "menu" (the destination prompt), "replaying",
\*         "closed" (the loop has ended)

NavKinds == {"move", "lift"}

\* headings a persisted Move can carry
NavYaw(n) ==
    CASE n % 5 = 0 -> 0
      [] n % 5 = 1 -> 90
      [] n % 5 = 2 -> 180
      [] n % 5 = 3 -> -90
      [] OTHER -> -180

\* the j-th record of waypoint k of a loaded document: a MoveRecord or a
\* LiftRecord, its id and distance telling where it stands in the session
NavRecord(k, j, kind) ==
    IF kind = "move"
    THEN [id |-> 10 * k + j, type |-> "move", yaw |-> NavYaw(k + j),
          distance |-> 10 * k + j, timestamp |-> 10 * k + j]
    ELSE [id |-> 10 * k + j, type |-> "lift",
          direction |-> IF (k + j) % 2 = 0 THEN "up" ELSE "down",
          distance |-> 10 * k + j, timestamp |-> 10 * k + j]

SegmentKinds == UNION {[1..l -> NavKinds] : l \in 0..MaxSegment}

NavWaypoint(k, kinds) ==
    [id |-> WaypointId(k),
     name |-> IF k = 1 THEN Name("START") ELSE DefaultName(k),
     movements_to_here |->
         IF k = 1 THEN <<>>
         ELSE [j \in 1..Len(kinds) |-> NavRecord(k, j, kinds[j])]]

\* the sessions that can be loaded: a START waypoint and one or more others
NavSessionsOf(n) ==
    {[k \in 1..n |-> NavWaypoint(k, IF k = 1 THEN <<>> ELSE segs[k - 1])]
        : segs \in [1..(n - 1) -> SegmentKinds]}

NavSessions == UNION {NavSessionsOf(n) : n \in 2..MaxNavWaypoints}

\* heading + 180, normalized into (-180,180]
InvertHeading_negated(yaw) == 0 - yaw

InvertHeading(yaw) ==
    LET h == yaw + 180
    IN IF h > 180 THEN h - 360 ELSE IF h <= -180 THEN h + 360 ELSE h

FlipLift(direction) == IF direction = "up" THEN "down" ELSE "up"

InvertEvent(e) ==
    IF e.type = "move" THEN [e EXCEPT !.yaw = InvertHeading(@)]
    ELSE [e EXCEPT !.direction = FlipLift(@)]

InvertSegment_in_order(seg) == [i \in 1..Len(seg) |-> InvertEvent(seg[i])]

\* a segment taken backward: reverse event order, each event inverted
InvertSegment(seg) ==
    [i \in 1..Len(seg) |-> InvertEvent(seg[Len(seg) + 1 - i])]

\* forward: the movement lists of waypoints c+1 .. d, one waypoint at a time
ForwardPlan_direct(session, c, d) == session[d].movements_to_here

RECURSIVE ForwardPlan(_, _, _)
ForwardPlan(session, c, d) ==
    IF c >= d THEN <<>>
    ELSE session[c + 1].movements_to_here \o ForwardPlan(session, c + 1, d)

\* backward: waypoints c, c-1, .. d+1, each one's own list inverted
RECURSIVE BackwardPlan(_, _, _)
BackwardPlan(session, c, d) ==
    IF c <= d THEN <<>>
    ELSE InvertSegment(session[c].movements_to_here)
             \o BackwardPlan(session, c - 1, d)

ResolvePlan(session, c, d) ==
    IF d > c THEN ForwardPlan(session, c, d) ELSE BackwardPlan(session, c, d)

\* the unit vector of a heading that is a multiple of 90 degrees
HeadingX(h) == CASE h % 360 = 0 -> 1 [] h % 360 = 180 -> -1 [] OTHER -> 0

HeadingY(h) == CASE h % 360 = 90 -> 1 [] h % 360 = 270 -> -1 [] OTHER -> 0

\* a command carried out by the vehicle: a Move rotates to the given
\* heading, then translates forward by the distance; a Lift ascends or
\* descends by the distance
Execute(pose, cmd) ==
    IF cmd.type = "move"
    THEN [pose EXCEPT !.heading = cmd.yaw,
                      !.x = @ + cmd.distance * HeadingX(cmd.yaw),
                      !.y = @ + cmd.distance * HeadingY(cmd.yaw)]
    ELSE [pose EXCEPT !.z = IF cmd.direction = "up" THEN @ + cmd.distance
                            ELSE @ - cmd.distance]

\* the last two completed replays, the newest last
Remember(trips, trip) ==
    IF trips = <<>> THEN <<trip>> ELSE <<trips[Len(trips)], trip>>

\* the destinations offered: every waypoint index but the current one
Destinations(session, c) == {d \in 1..Len(session) : d # c}

NavInit ==
    /\ RecorderInit
    /\ pc = "api"
    /\ activeMovementKey = NoKey
    /\ x_pressed = FALSE
    /\ steps = <<>>
    /\ document = <<>>
    /\ data_file = NoFile
    /\ printed = <<>>
    /\ interrupted = FALSE
    /\ nav_session \in NavSessions
    /\ nav_current = 1
    /\ nav_from = 0
    /\ nav_dest = 0
    /\ nav_plan = <<>>
    /\ nav_issued = <<>>
    /\ nav_pc = "menu"
    /\ nav_pose = [x |-> 0, y |-> 0, z |-> 0, heading |-> 0]
    /\ nav_start = nav_pose
    /\ nav_trips = <<>>
    /\ loop_count = 0
    /\ nav_files = 0
    /\ nav_destinations = <<>>
    /\ nav_input = <<>>
    /\ nav_request = <<>>
    /\ nav_result = "none"
    /\ nav_battery = <<>>
    /\ app_landed = FALSE
    /\ nav_run = NoRun

\* the indices of the loaded session that carry a waypoint id
IndexOf(session, id) == {k \in 1..Len(session) : session[k].id = id}

\* navigate_to_waypoint(id): an unknown id and the current waypoint are
\* rejected before any command; otherwise the plan is resolved and its
\* replay begins
navigate_to_waypoint(id) ==
    /\ nav_request' = Append(nav_request, id)
    /\ IF IndexOf(nav_session, id) = {} \/ nav_current \in IndexOf(nav_session, id)
       THEN /\ nav_result' = "rejected"
            /\ nav_pc' = "closed"
            /\ UNCHANGED <<nav_from, nav_dest, nav_plan, nav_issued, nav_start>>
       ELSE /\ nav_from' = nav_current
            /\ nav_dest' = CHOOSE d \in IndexOf(nav_session, id) : TRUE
            /\ nav_plan' = ResolvePlan(nav_session, nav_current, nav_dest')
            /\ nav_issued' = <<>>
            /\ nav_start' = nav_pose
            /\ nav_result' = "replaying"
            /\ nav_pc' = "replaying"

\* the operator selects a destination of the list; the plan is resolved
NavChoose ==
    /\ nav_pc = "menu"
    /\ loop_count < MaxReplays
    /\ \E d \in Destinations(nav_session, nav_current) :
          navigate_to_waypoint(nav_session[d].id)
    /\ UNCHANGED <<recVars, runVars, nav_session, nav_current, nav_pose,
                   nav_trips, loop_count, nav_files, nav_destinations,
                   nav_input, nav_battery, app_landed, nav_run>>

NavIssue_carries_on ==
    /\ nav_pc = "replaying"
    /\ Len(nav_issued) < Len(nav_plan)
    /\ \E outcome \in {"ok", "fail"} :
          /\ nav_run' = vehicle_call(nav_run, nav_plan[Len(nav_issued) + 1])
          /\ nav_issued' = Append(nav_issued, nav_plan[Len(nav_issued) + 1])
          /\ nav_pc' = "replaying"
          /\ nav_result' = IF outcome = "ok" THEN nav_result ELSE "failed"
          /\ nav_pose' = IF outcome = "ok"
                         THEN Execute(nav_pose, nav_plan[Len(nav_issued) + 1])
                         ELSE nav_pose
    /\ UNCHANGED <<recVars, runVars, nav_session, nav_current, nav_from,
                   nav_dest, nav_plan, nav_start, nav_trips, loop_count,
                   nav_files, nav_destinations, nav_input, nav_request,
                   nav_battery, app_landed>>

NavIssue_advances ==
    /\ nav_pc = "replaying"
    /\ Len(nav_issued) < Len(nav_plan)
    /\ \E outcome \in {"ok", "fail"} :
          /\ nav_run' = vehicle_call(nav_run, nav_plan[Len(nav_issued) + 1])
          /\ nav_issued' = Append(nav_issued, nav_plan[Len(nav_issued) + 1])
          /\ nav_pc' = IF outcome = "ok" THEN "replaying" ELSE "closed"
          /\ nav_result' = IF outcome = "ok" THEN nav_result ELSE "failed"
          /\ nav_pose' = IF outcome = "ok"
                         THEN Execute(nav_pose, nav_plan[Len(nav_issued) + 1])
                         ELSE nav_pose
    /\ nav_current' = nav_dest
    /\ UNCHANGED <<recVars, runVars, nav_session, nav_from,
                   nav_dest, nav_plan, nav_start, nav_trips, loop_count,
                   nav_files, nav_destinations, nav_input, nav_request,
                   nav_battery, app_landed>>

\* the next command of the plan is issued and waited for; a failure
\* abandons the rest of the plan and ends the loop
NavIssue ==
    /\ nav_pc = "replaying"
    /\ Len(nav_issued) < Len(nav_plan)
    /\ \E outcome \in {"ok", "fail"} :
          /\ nav_run' = vehicle_call(nav_run, nav_plan[Len(nav_issued) + 1])
          /\ nav_issued' = Append(nav_issued, nav_plan[Len(nav_issued) + 1])
          /\ nav_pc' = IF outcome = "ok" THEN "replaying" ELSE "closed"
          /\ nav_result' = IF outcome = "ok" THEN nav_result ELSE "failed"
          /\ nav_pose' = IF outcome = "ok"
                         THEN Execute(nav_pose, nav_plan[Len(nav_issued) + 1])
                         ELSE nav_pose
    /\ UNCHANGED <<recVars, runVars, nav_session, nav_current, nav_from,
                   nav_dest, nav_plan, nav_start, nav_trips, loop_count,
                   nav_files, nav_destinations, nav_input, nav_request,
                   nav_battery, app_landed>>

\* every command has completed: the context moves to the destination, and
\* the loop counts the replay and goes round
NavArrive ==
    /\ nav_pc = "replaying"
    /\ Len(nav_issued) = Len(nav_plan)
    /\ nav_current' = nav_dest
    /\ nav_result' = "success"
    /\ loop_count' = loop_count + 1
    /\ nav_pc' = "menu"
    /\ nav_trips' = Remember(nav_trips, [from |-> nav_from, dest |-> nav_dest,
                                         plan |-> nav_plan,
                                         start |-> nav_start,
                                         pose |-> nav_pose])
    /\ UNCHANGED <<recVars, runVars, nav_session, nav_from, nav_dest,
                   nav_plan, nav_issued, nav_pose, nav_start, nav_files,
                   nav_destinations, nav_input, nav_request, nav_battery,
                   app_landed, nav_run>>

\* 'q' at the prompt
NavQuit ==
    /\ nav_pc = "menu"
    /\ nav_pc' = "closed"
    /\ UNCHANGED <<recVars, runVars, nav_session, nav_current, nav_from,
                   nav_dest, nav_plan, nav_issued, nav_pose, nav_start,
                   nav_trips, uiVars>>

NavNext == NavChoose \/ NavIssue \/ NavArrive \/ NavQuit

SpecNav == NavInit /\ [][NavNext]_vars

\* ======================================== navigation mode of the application
\* TelloNavigationApp._run_navigation_mode and _cleanup (main.py) around
\* NavigationInterface.run (navigation_interface.py).
\*
\* nav_pc: "connect", "takeoff", "run" (the top of run()),
\*         "load" (_load_waypoint_file),
\*         "select_battery", "select_prompt" (_select_waypoint_file),
\*         "loading" (load_waypoint_file), "menu" (top of the loop),
\*         "battery", "prompt" (_get_navigation_choice), "replaying",
\*         "closed" (run() is at its finally), "cleanup_land",
\*         "cleanup_end", "exited"

captureVars == <<current_movement, add_movement, current_waypoint_movements,
                 waypoints, waypoint_counter, created, last>>

replayVars == <<nav_from, nav_dest, nav_plan, nav_issued, nav_start, nav_pose,
                nav_trips>>

\* what a battery query gives: a percentage, a text that is no integer (an
\* error or timeout string), an exception, or the operator's interrupt
Percentage(n) == [kind |-> "int", val |-> n]

BatteryAnswers ==
    {Percentage(50), Percentage(20), Percentage(19), Percentage(10),
     Percentage(9), [kind |-> "text", val |-> 0],
     [kind |-> "raise", val |-> 0], [kind |-> "interrupt", val |-> 0]}

prompt_battery_warns(answer) ==
    CASE answer.kind = "interrupt" -> "interrupt"
      [] answer.kind \in {"raise", "text"} -> "failed"
      [] OTHER -> "go"

prompt_battery_skips(answer) ==
    CASE answer.kind = "interrupt" -> "interrupt"
      [] answer.kind = "int" /\ answer.val < 20 /\ answer.val < 10 -> "critical"
      [] OTHER -> "go"

\* the battery check that opens every round of a prompt
prompt_battery(answer) ==
    CASE answer.kind = "interrupt" -> "interrupt"
      [] answer.kind \in {"raise", "text"} -> "failed"
      [] answer.kind = "int" /\ answer.val < 20 /\ answer.val < 10 -> "critical"
      [] OTHER -> "go"

\* a line typed by the operator
Typed(t) == [kind |-> "text", text |-> t, n |-> 0]

Number(n) == [kind |-> "number", text |-> "", n |-> n]

Lines ==
    {Typed("q"), Typed("Q"), Typed("r"), Typed("abc"), Typed("")}
        \cup {Number(n) : n \in (-1)..(MaxNavWaypoints + 1)}

\* choice.strip().lower()
Lower(line) ==
    IF line = Typed("Q") THEN Typed("q") ELSE line

\* int(choice): <<>> stands for ValueError
ParseInt(line) == IF line.kind = "number" THEN <<line.n>> ELSE <<>>

navigation_choice_no_lower_bound(line, loopCount, destinations) ==
    LET choice == Lower(line)
    IN IF choice = Typed("q") THEN [kind |-> "quit", index |-> 0]
       ELSE IF choice = Typed("r")
       THEN IF loopCount = 0 THEN [kind |-> "reload", index |-> 0]
            ELSE [kind |-> "again", index |-> 0]
       ELSE IF ParseInt(choice) = <<>> THEN [kind |-> "again", index |-> 0]
       ELSE LET waypoint_index == ParseInt(choice)[1] - 1
                at == IF waypoint_index < 0
                      THEN Len(destinations) + 1 + waypoint_index
                      ELSE waypoint_index + 1
            IN IF waypoint_index < Len(destinations)
               THEN IF at >= 1 THEN [kind |-> "navigate", index |-> at]
                    ELSE [kind |-> "quit", index |-> 0]
               ELSE [kind |-> "again", index |-> 0]

navigation_choice_reloads_anytime(line, loopCount, destinations) ==
    LET choice == Lower(line)
    IN IF choice = Typed("q") THEN [kind |-> "quit", index |-> 0]
       ELSE IF choice = Typed("r")
       THEN [kind |-> "reload", index |-> 0]
       ELSE IF ParseInt(choice) = <<>> THEN [kind |-> "again", index |-> 0]
       ELSE LET waypoint_index == ParseInt(choice)[1] - 1
            IN IF 0 <= waypoint_index /\ waypoint_index < Len(destinations)
               THEN [kind |-> "navigate", index |-> waypoint_index + 1]
               ELSE [kind |-> "again", index |-> 0]

\* what _get_navigation_choice makes of a line that was read
navigation_choice(line, loopCount, destinations) ==
    LET choice == Lower(line)
    IN IF choice = Typed("q") THEN [kind |-> "quit", index |-> 0]
       ELSE IF choice = Typed("r")
       THEN IF loopCount = 0 THEN [kind |-> "reload", index |-> 0]
            ELSE [kind |-> "again", index |-> 0]
       ELSE IF ParseInt(choice) = <<>> THEN [kind |-> "again", index |-> 0]
       ELSE LET waypoint_index == ParseInt(choice)[1] - 1
            IN IF 0 <= waypoint_index /\ waypoint_index < Len(destinations)
               THEN [kind |-> "navigate", index |-> waypoint_index + 1]
               ELSE [kind |-> "again", index |-> 0]

\* what _select_waypoint_file makes of a line that was read
file_choice(line, files) ==
    LET choice == Lower(line)
    IN IF choice = Typed("q") THEN "quit"
       ELSE IF ParseInt(choice) = <<>> THEN "again"
       ELSE LET file_index == ParseInt(choice)[1] - 1
            IN IF 0 <= file_index /\ file_index < files THEN "file"
               ELSE "again"

\* print_navigation_options: every waypoint but the current one, in session
\* order, as (id, name) pairs
RECURSIVE DestinationsFrom(_, _, _)
DestinationsFrom(session, c, k) ==
    IF k > Len(session) THEN <<>>
    ELSE IF k = c THEN DestinationsFrom(session, c, k + 1)
    ELSE <<<<session[k].id, session[k].name>>>>
             \o DestinationsFrom(session, c, k + 1)

DestinationList_all(session, c) == DestinationsFrom(session, 0, 1)

DestinationList(session, c) == DestinationsFrom(session, c, 1)

\* the sessions the files hold: START alone, or START and waypoints whose
\* segments alternate Move and Lift
AppKinds(k) ==
    [j \in 1..MaxSegment |-> IF (k + j) % 2 = 0 THEN "move" ELSE "lift"]

AppSessions ==
    {[k \in 1..n |-> NavWaypoint(k, AppKinds(k))] : n \in 1..MaxNavWaypoints}

AppInit ==
    /\ RecorderInit
    /\ pc = "api"
    /\ activeMovementKey = NoKey
    /\ x_pressed = FALSE
    /\ steps = <<>>
    /\ document = <<>>
    /\ data_file = NoFile
    /\ printed = <<>>
    /\ interrupted = FALSE
    /\ nav_session = <<>>
    /\ nav_current = 0
    /\ nav_from = 0
    /\ nav_dest = 0
    /\ nav_plan = <<>>
    /\ nav_issued = <<>>
    /\ nav_pc = "connect"
    /\ nav_pose = [x |-> 0, y |-> 0, z |-> 0, heading |-> 0]
    /\ nav_start = nav_pose
    /\ nav_trips = <<>>
    /\ loop_count = 0
    /\ nav_files = 0
    /\ nav_destinations = <<>>
    /\ nav_input = <<>>
    /\ nav_request = <<>>
    /\ nav_result = "none"
    /\ nav_battery = <<>>
    /\ app_landed = FALSE
    /\ nav_run = NoRun

\* connect_drone: a failed connect ends the mode; the battery query that
\* follows is only printed, but an interrupt in it ends the mode as well
AppConnectDrone ==
    /\ nav_pc = "connect"
    /\ \E connect \in CallOutcomes, battery \in CallOutcomes :
          /\ is_connected' = (connect = "ok")
          /\ nav_pc' = IF connect = "ok" /\ battery # "interrupt"
                       THEN "takeoff" ELSE "cleanup_land"
    /\ UNCHANGED <<is_flying, captureVars, runVars, nav_session, nav_current,
                   replayVars, uiVars>>

TakeoffOutcomes == CallOutcomes \cup {"interrupt in sleep"}

\* takeoff, and the start of nav_interface.run
AppTakeoff ==
    /\ nav_pc = "takeoff"
    /\ \E outcome \in TakeoffOutcomes :
          /\ is_flying' = (outcome \in {"ok", "interrupt in sleep"})
          /\ nav_pc' = IF outcome = "ok" THEN "run" ELSE "cleanup_land"
    /\ UNCHANGED <<is_connected, captureVars, runVars, nav_session,
                   nav_current, replayVars, uiVars>>

\* the top of NavigationInterface.run: without a drone instance it prints
\* and returns, through the finally
RunEnter ==
    /\ nav_pc = "run"
    /\ nav_run' = [nav_run EXCEPT !.called = TRUE]
    /\ nav_pc' = IF nav_run.drone = "None" THEN "closed" ELSE "load"
    /\ UNCHANGED <<recVars, runVars, nav_session, nav_current, replayVars,
                   loop_count, nav_files, nav_destinations, nav_input,
                   nav_request, nav_result, nav_battery, app_landed>>

\* _load_waypoint_file up to the choice of the file
FindWaypointFiles ==
    /\ nav_pc = "load"
    /\ \E n \in 0..MaxFiles :
          /\ nav_files' = n
          /\ nav_pc' = CASE n = 0 -> "closed"
                         [] n = 1 -> "loading"
                         [] OTHER -> "select_battery"
    /\ UNCHANGED <<recVars, runVars, nav_session, nav_current, replayVars,
                   loop_count, nav_destinations, nav_input, nav_request,
                   nav_result, nav_battery, app_landed, nav_run>>

\* the battery check of _select_waypoint_file
SelectBattery ==
    /\ nav_pc = "select_battery"
    /\ \E answer \in BatteryAnswers :
          /\ nav_battery' = <<answer>>
          /\ nav_pc' = IF prompt_battery(answer) = "go" THEN "select_prompt"
                       ELSE "closed"
    /\ nav_input' = <<>>
    /\ nav_run' = vehicle_call(nav_run, Query("battery?"))
    /\ UNCHANGED <<recVars, runVars, nav_session, nav_current, replayVars,
                   loop_count, nav_files, nav_destinations, nav_request,
                   nav_result, app_landed>>

PromptEvents == {"line", "timeout", "interrupt", "error"}

\* the wait for a line in _select_waypoint_file and what is made of it
SelectInput ==
    /\ nav_pc = "select_prompt"
    /\ \E event \in PromptEvents, line \in Lines :
          /\ nav_input' = IF event = "line" THEN <<line>> ELSE nav_input
          /\ nav_pc' = CASE event = "timeout" -> "select_battery"
                         [] event \in {"interrupt", "error"} -> "closed"
                         [] OTHER ->
                              CASE file_choice(line, nav_files) = "quit"
                                      -> "closed"
                                [] file_choice(line, nav_files) = "file"
                                      -> "loading"
                                [] OTHER -> "select_battery"
    /\ UNCHANGED <<recVars, runVars, nav_session, nav_current, replayVars,
                   loop_count, nav_files, nav_destinations, nav_request,
                   nav_result, nav_battery, app_landed, nav_run>>

\* nav_manager.load_waypoint_file: the session is loaded whole and the
\* context starts at its first waypoint, or the load fails
LoadSession ==
    /\ nav_pc = "loading"
    /\ \/ /\ nav_session' \in AppSessions
          /\ nav_current' = 1
          /\ nav_pc' = "menu"
       \/ /\ nav_pc' = "closed"
          /\ UNCHANGED <<nav_session, nav_current>>
    /\ UNCHANGED <<recVars, runVars, replayVars, uiVars>>

\* the top of the loop: the destinations are listed
PrintNavigationOptions ==
    /\ nav_pc = "menu"
    /\ nav_destinations' = DestinationList(nav_session, nav_current)
    /\ nav_pc' = IF nav_destinations' = <<>> THEN "closed" ELSE "battery"
    /\ UNCHANGED <<recVars, runVars, nav_session, nav_current, replayVars,
                   loop_count, nav_files, nav_input, nav_request, nav_result,
                   nav_battery, app_landed, nav_run>>

\* the battery check of _get_navigation_choice
ChoiceBattery ==
    /\ nav_pc = "battery"
    /\ \E answer \in BatteryAnswers :
          /\ nav_battery' = <<answer>>
          /\ nav_pc' = IF prompt_battery(answer) = "go" THEN "prompt"
                       ELSE "closed"
    /\ nav_input' = <<>>
    /\ nav_run' = vehicle_call(nav_run, Query("battery?"))
    /\ UNCHANGED <<recVars, runVars, nav_session, nav_current, replayVars,
                   loop_count, nav_files, nav_destinations, nav_request,
                   nav_result, app_landed>>

\* no line within the timeout, an interrupt, or an error while reading
ChoiceNoLine ==
    /\ nav_pc = "prompt"
    /\ \E event \in PromptEvents \ {"line"} :
          nav_pc' = IF event = "timeout" THEN "battery" ELSE "closed"
    /\ UNCHANGED <<recVars, runVars, nav_session, nav_current, replayVars,
                   uiVars>>

\* a line that is 'q', 'r', or no selection of the list
ChoiceOther ==
    /\ nav_pc = "prompt"
    /\ \E line \in Lines :
          LET choice == navigation_choice(line, loop_count, nav_destinations)
          IN /\ choice.kind # "navigate"
             /\ nav_input' = <<line>>
             /\ nav_pc' = CASE choice.kind = "quit" -> "closed"
                            [] choice.kind = "reload" -> "load"
                            [] OTHER -> "battery"
    /\ UNCHANGED <<recVars, runVars, nav_session, nav_current, replayVars,
                   loop_count, nav_files, nav_destinations, nav_request,
                   nav_result, nav_battery, app_landed, nav_run>>

\* a selection of the list: its id goes to navigate_to_waypoint
ChoiceNavigate ==
    /\ nav_pc = "prompt"
    /\ loop_count < MaxReplays
    /\ \E line \in Lines :
          LET choice == navigation_choice(line, loop_count, nav_destinations)
          IN /\ choice.kind = "navigate"
             /\ nav_input' = <<line>>
             /\ navigate_to_waypoint(nav_destinations[choice.index][1])
    /\ UNCHANGED <<recVars, runVars, nav_session, nav_current, nav_pose,
                   nav_trips, loop_count, nav_files, nav_destinations,
                   nav_battery, app_landed, nav_run>>

\* the finally of NavigationInterface.run: the velocity command that stops
\* the vehicle is called on drone_instance; without an instance the call is
\* an AttributeError, and whatever the call raises leaves run()
run_finally_skips(v, rc) == [v EXCEPT !.exit = "returned"]

run_finally(v, rc) ==
    IF v.drone = "None" THEN [v EXCEPT !.exit = "raised"]
    ELSE [v EXCEPT !.last = <<Rc(0, 0, 0, 0)>>,
                   !.exit = IF rc = "ok" THEN "returned" ELSE "raised"]

\* what leaves run() ends in TelloNavigationApp.run
RunFinally ==
    /\ nav_pc = "closed"
    /\ \E rc \in CallOutcomes :
          /\ nav_run' = run_finally(nav_run, rc)
          /\ nav_pc' = "cleanup_land"
    /\ UNCHANGED <<recVars, runVars, nav_session, nav_current, replayVars,
                   loop_count, nav_files, nav_destinations, nav_input,
                   nav_request, nav_result, nav_battery, app_landed>>

\* _cleanup: land when flying
AppCleanupLand ==
    /\ nav_pc = "cleanup_land"
    /\ IF is_flying
       THEN \E land \in CallOutcomes :
               /\ app_landed' = TRUE
               /\ is_flying' = (land # "ok")
               /\ nav_pc' = IF land = "interrupt" THEN "exited"
                            ELSE "cleanup_end"
       ELSE /\ nav_pc' = "cleanup_end"
            /\ UNCHANGED <<is_flying, app_landed>>
    /\ UNCHANGED <<is_connected, captureVars, runVars, nav_session,
                   nav_current, replayVars, loop_count, nav_files,
                   nav_destinations, nav_input, nav_request, nav_result,
                   nav_battery, nav_run>>

\* _cleanup: disconnect when connected
AppCleanupEnd ==
    /\ nav_pc = "cleanup_end"
    /\ IF is_connected
       THEN \E end \in CallOutcomes : is_connected' = (end # "ok")
       ELSE UNCHANGED is_connected
    /\ nav_pc' = "exited"
    /\ UNCHANGED <<is_flying, captureVars, runVars, nav_session, nav_current,
                   replayVars, uiVars>>

AppNext ==
    \/ AppConnectDrone \/ AppTakeoff \/ RunEnter \/ FindWaypointFiles
    \/ SelectBattery
    \/ SelectInput \/ LoadSession \/ PrintNavigationOptions \/ ChoiceBattery
    \/ ChoiceNoLine \/ ChoiceOther \/ ChoiceNavigate \/ NavIssue \/ NavArrive
    \/ RunFinally \/ AppCleanupLand \/ AppCleanupEnd

SpecApp == AppInit /\ [][AppNext]_vars

\* ================================ NavigationInterface.run called directly
\* run(drone_instance, ...) called by any caller, with or without a drone
\* instance
DroneInstances == {"tello", "None"}

DirectInit ==
    /\ RecorderInit
    /\ pc = "api"
    /\ activeMovementKey = NoKey
    /\ x_pressed = FALSE
    /\ steps = <<>>
    /\ document = <<>>
    /\ data_file = NoFile
    /\ printed = <<>>
    /\ interrupted = FALSE
    /\ nav_session = <<>>
    /\ nav_current = 0
    /\ nav_from = 0
    /\ nav_dest = 0
    /\ nav_plan = <<>>
    /\ nav_issued = <<>>
    /\ nav_pc = "run"
    /\ nav_pose = [x |-> 0, y |-> 0, z |-> 0, heading |-> 0]
    /\ nav_start = nav_pose
    /\ nav_trips = <<>>
    /\ loop_count = 0
    /\ nav_files = 0
    /\ nav_destinations = <<>>
    /\ nav_input = <<>>
    /\ nav_request = <<>>
    /\ nav_result = "none"
    /\ nav_battery = <<>>
    /\ app_landed = FALSE
    /\ \E d \in DroneInstances : nav_run = [NoRun EXCEPT !.drone = d]

DirectNext ==
    \/ RunEnter \/ FindWaypointFiles \/ SelectBattery \/ SelectInput
    \/ LoadSession \/ PrintNavigationOptions \/ ChoiceBattery
    \/ ChoiceNoLine \/ ChoiceOther \/ ChoiceNavigate \/ NavIssue \/ NavArrive
    \/ RunFinally

SpecDirect == DirectInit /\ [][DirectNext]_vars

\* ======================================================== recorder claims

RecorderState == <<current_movement, add_movement, current_waypoint_movements,
                   waypoints, waypoint_counter, created>>

\* C1: a start_movement call made while a movement is active returns without
\* changing current_movement, add_movement or the pending cluster, and makes
\* no telemetry query and no velocity command (its I/O is empty).
C1_StartWhileActiveIsNoOp ==
    [][(last'.op = "start_movement" /\ current_movement # <<>>)
          => /\ current_movement' = current_movement
             /\ add_movement' = add_movement
             /\ current_waypoint_movements' = current_waypoint_movements
             /\ last'.io = <<>>]_vars

\* a start_movement call was rejected while a movement was active
C1_Witness ==
    /\ last.op = "start_movement"
    /\ last.io = <<>>
    /\ current_movement # <<>>

\* the events of the waypoints, of the pending cluster and of the document
AllMovements ==
    UNION {{w.movements_to_here[i] : i \in 1..Len(w.movements_to_here)}
              : w \in {waypoints[k] : k \in 1..Len(waypoints)}}
DocumentMovements ==
    UNION {{w.movements_to_here[i] : i \in 1..Len(w.movements_to_here)}
              : w \in {SessionData(waypoints).waypoints[k] : k \in 1..Len(waypoints)}}
PendingMovements ==
    {current_waypoint_movements[i] : i \in 1..Len(current_waypoint_movements)}

NoRotateJournaled ==
    \A e \in AllMovements \cup PendingMovements \cup DocumentMovements :
        e.type # "rotate"

\* C2: stop_movement called while a rotation is active leaves the pending
\* cluster and the waypoint list unchanged and clears the active-movement
\* slot; no event of type 'rotate' is in a waypoint, in the pending cluster
\* or in the document built from the waypoints.
C2_RotationsNeverJournaled ==
    /\ []NoRotateJournaled
    /\ [][(last'.op = "stop_movement" /\ current_movement # <<>>
             /\ current_movement[1].type = "rotate")
            => /\ current_waypoint_movements' = current_waypoint_movements
               /\ waypoints' = waypoints
               /\ created' = created
               /\ current_movement' = <<>>]_vars

\* a rotation was stopped after events were journaled and a waypoint marked
C2_Witness ==
    /\ last.op = "stop_movement"
    /\ last.io = <<Rc(0, 0, 0, 0)>>
    /\ current_movement = <<>>
    /\ ~add_movement
    /\ Len(waypoints) > 0
    /\ current_waypoint_movements # <<>>

\* C3: stop_movement called while a Move or Lift is active appends exactly
\* one event to the end of the pending cluster, with the type, direction and
\* start_yaw of the active movement, and empties the slot, also when the
\* zero-velocity command raises; called while nothing is active it changes
\* nothing.
C3_StopRecordsOneEvent ==
    [][last'.op = "stop_movement"
          => IF current_movement = <<>>
             THEN UNCHANGED RecorderState
             ELSE current_movement[1].type \in {"move", "lift"}
                  => /\ Len(current_waypoint_movements')
                            = Len(current_waypoint_movements) + 1
                     /\ SubSeq(current_waypoint_movements', 1,
                               Len(current_waypoint_movements))
                            = current_waypoint_movements
                     /\ LET e == current_waypoint_movements'
                                     [Len(current_waypoint_movements')]
                        IN /\ e.type = current_movement[1].type
                           /\ e.direction = current_movement[1].direction
                           /\ e.start_yaw = current_movement[1].start_yaw
                     /\ current_movement' = <<>>]_vars

\* a lift was stopped and recorded although the zero-velocity command raised
C3_Witness ==
    /\ last.op = "stop_movement"
    /\ last.io = <<>>
    /\ current_movement = <<>>
    /\ Len(current_waypoint_movements) = 2
    /\ current_waypoint_movements[2].type = "lift"
    /\ current_waypoint_movements[2].start_yaw = -90

\* C4: a mark_waypoint call (one that returns) empties the pending cluster,
\* appends one waypoint whose movements_to_here is the pending cluster as it
\* was before the call, and leaves the earlier waypoints unchanged.
C4_MarkDrainsCluster ==
    [][(last'.op = "mark_waypoint" /\ last'.exc = "none")
          => /\ current_waypoint_movements' = <<>>
             /\ Len(waypoints') = Len(waypoints) + 1
             /\ waypoints'[Len(waypoints')].movements_to_here
                    = current_waypoint_movements
             /\ SubSeq(waypoints', 1, Len(waypoints)) = waypoints]_vars

\* a second waypoint was marked with two pending events
C4_Witness ==
    /\ last.op = "mark_waypoint"
    /\ last.exc = "none"
    /\ Len(waypoints) = 2
    /\ Len(waypoints[2].movements_to_here) = 2
    /\ current_waypoint_movements = <<>>

\* ========================================================= session claims

StartWaypoint ==
    [id |-> [prefix |-> "WP_", digits |-> <<0, 0, 1>>],
     name |-> [text |-> "START", n |-> 0],
     movements_to_here |-> <<>>]

\* C5: in a session of run() the first waypoint is created right after a
\* successful takeoff (one waypoint, vehicle flying, when the key loop is
\* entered) and is WP_001 'START' with no movements, in the waypoint list and
\* in the written document, whatever keys follow; no waypoint exists before
\* takeoff has succeeded or after run() returned on a failed connect or
\* takeoff.
C5_FirstWaypointIsStart ==
    /\ pc \in {"connect", "takeoff", "returned"} => waypoints = <<>>
    /\ pc = "enter_keys" => (is_flying /\ Len(waypoints) = 1)
    /\ pc \notin {"connect", "takeoff", "returned", "killed"} => waypoints # <<>>
    /\ waypoints # <<>> => waypoints[1] = StartWaypoint
    /\ document # <<>> => document[1].waypoints[1] = StartWaypoint

\* a session with a second waypoint holding an event was written
C5_Witness ==
    /\ pc = "done"
    /\ document # <<>>
    /\ Len(document[1].waypoints) >= 2
    /\ Len(document[1].waypoints[2].movements_to_here) >= 1
    /\ document[1].waypoints[1].name = Name("START")

\* the save step of run() has been taken
Persisting == steps # <<>> /\ steps[Len(steps)] = "persist"

WrittenIds(doc) ==
    UNION {{w.movements_to_here[i].id : i \in 1..Len(w.movements_to_here)}
              : w \in {doc.waypoints[k] : k \in 1..Len(doc.waypoints)}}

\* C6: whenever run() reaches save_to_json, however the key loop ended, the
\* pending cluster is empty, no movement is active and every event created
\* in the session is in a waypoint of the document that is built (and of the
\* document on disk when the write succeeds).
C6_NoOrphansAtShutdown ==
    Persisting =>
        /\ current_waypoint_movements = <<>>
        /\ current_movement = <<>>
        /\ \A i \in 1..Len(created) :
               created[i].id \in WrittenIds(SessionData(waypoints))
        /\ document # <<>> =>
               \A i \in 1..Len(created) : created[i].id \in WrittenIds(document[1])

\* an interrupt ended the key loop while a movement was active; the movement
\* was stopped, flushed into a final waypoint and written
C6_Witness ==
    /\ steps = <<"stop", "flush", "land", "disconnect", "persist">>
    /\ interrupted
    /\ document # <<>>
    /\ Len(created) >= 1
    /\ created[Len(created)].id \in WrittenIds(document[1])
    /\ waypoints[Len(waypoints)].name = Name("END")

CleanupOrder == <<"stop", "flush", "land", "disconnect", "persist">>

\* the position of a cleanup step in the fixed order
CleanupRank(step) == CHOOSE i \in 1..Len(CleanupOrder) : CleanupOrder[i] = step

\* the vehicle has taken off in this session
Airborne == is_flying \/ waypoints # <<>>

\* C7: once an operator interrupt has arrived in a session whose vehicle has
\* taken off and run() has ended, the cleanup steps taken are in the fixed
\* order stop, flush, land, disconnect, persist, each at most once, and land,
\* disconnect and persist were all attempted (the session was written once).
C7_InterruptUnwindsToPersist ==
    (interrupted /\ Airborne /\ pc \in {"done", "killed"}) =>
        /\ \A i, j \in 1..Len(steps) :
               i < j => CleanupRank(steps[i]) < CleanupRank(steps[j])
        /\ \A must \in {"land", "disconnect", "persist"} :
               \E i \in 1..Len(steps) : steps[i] = must

\* ======================================================= serializer claims

\* the records of a written document
DocumentRecords(doc) ==
    UNION {{w.movements_to_here[i] : i \in 1..Len(w.movements_to_here)}
              : w \in {doc.waypoints[k] : k \in 1..Len(doc.waypoints)}}

\* the Move events of the session whose start heading is in [-180,180],
\* each with the record written for it
WrittenMoves ==
    {<<created[i], m>> : i \in 1..Len(created),
                         m \in IF document = <<>> THEN {}
                               ELSE DocumentRecords(document[1])}

\* C8: for every Move event with an integer start heading in [-180,180] and
\* any of the four directions, the yaw written by save_to_json is in the
\* half-open interval (-180,180].
C8_YawInHalfOpenRange ==
    \A p \in WrittenMoves :
        (/\ p[1].id = p[2].id
         /\ p[1].type = "move"
         /\ p[1].start_yaw >= -180
         /\ p[1].start_yaw <= 180)
            => (p[2].yaw > -180 /\ p[2].yaw <= 180)

C9_Offset(direction) ==
    CASE direction = "forward" -> 0
      [] direction = "backward" -> 180
      [] direction = "left" -> -90
      [] direction = "right" -> 90

\* C9: for every recorded Move event, the yaw written is start_yaw +
\* offset(direction), or that sum minus 360 or plus 360: it is congruent to
\* start_yaw + offset(direction) modulo 360.
C9_YawIsStartPlusOffset ==
    \A p \in WrittenMoves :
        (p[1].id = p[2].id /\ p[1].type = "move")
            => LET sum == p[1].start_yaw + C9_Offset(p[1].direction)
               IN /\ p[2].yaw \in {sum, sum - 360, sum + 360}
                  /\ (p[2].yaw - sum) % 360 = 0

\* a Move to the right started at heading 180 was written with yaw -90
C9_Witness ==
    /\ document # <<>>
    /\ created[1].type = "move"
    /\ created[1].direction = "right"
    /\ created[1].start_yaw = 180
    /\ document[1].waypoints[2].movements_to_here[1].yaw = -90

\* ========================================================== planner claims

\* the events of waypoints lo..hi of the loaded session
EventsOf(lo, hi) ==
    UNION {{nav_session[k].movements_to_here[j]
               : j \in 1..Len(nav_session[k].movements_to_here)}
              : k \in lo..hi}

\* the events before segment k in a forward plan that starts after c
RECURSIVE OffsetOf(_, _)
OffsetOf(c, k) ==
    IF k <= c + 1 THEN 0
    ELSE OffsetOf(c, k - 1) + Len(nav_session[k - 1].movements_to_here)

\* C10: in a forward replay from c to d (c < d) the plan holds, for each
\* waypoint k of c+1..d in that order, the events of k in their order and
\* unmodified, and nothing else; the commands issued are a prefix of the
\* plan, so no event of a waypoint <= c or > d is issued.
C10_ForwardPlanIsConcatenation ==
    (nav_pc \in {"menu", "replaying", "closed"} /\ nav_from < nav_dest) =>
        /\ Len(nav_plan) = OffsetOf(nav_from, nav_dest + 1)
        /\ \A k \in (nav_from + 1)..nav_dest :
             \A j \in 1..Len(nav_session[k].movements_to_here) :
                nav_plan[OffsetOf(nav_from, k) + j]
                    = nav_session[k].movements_to_here[j]
        /\ nav_issued = SubSeq(nav_plan, 1, Len(nav_issued))
        /\ \A i \in 1..Len(nav_issued) :
             /\ nav_issued[i] \in EventsOf(nav_from + 1, nav_dest)
             /\ nav_issued[i] \notin EventsOf(1, nav_from)
             /\ nav_issued[i] \notin EventsOf(nav_dest + 1, Len(nav_session))

\* a forward replay from the first to the third waypoint has completed,
\* over two segments that both hold events
C10_Witness ==
    /\ nav_pc = "menu"
    /\ nav_from = 1
    /\ nav_dest = 3
    /\ nav_current = 3
    /\ Len(nav_session[2].movements_to_here) = 2
    /\ Len(nav_session[3].movements_to_here) >= 1
    /\ nav_issued = nav_plan

\* the heading in (-180,180] congruent to yaw + 180 modulo 360
OppositeHeading(yaw) == CHOOSE h \in (-179)..180 : (h - yaw - 180) % 360 = 0

\* an event as it is replayed when its segment is travelled backward
Inverted(e) ==
    IF e.type = "move"
    THEN [id |-> e.id, type |-> "move", yaw |-> OppositeHeading(e.yaw),
          distance |-> e.distance, timestamp |-> e.timestamp]
    ELSE [id |-> e.id, type |-> "lift",
          direction |-> IF e.direction = "up" THEN "down" ELSE "up",
          distance |-> e.distance, timestamp |-> e.timestamp]

\* C11: in a backward replay from c to d (d < c) the plan is the forward
\* sequence of waypoints d+1..c read from its end, each event inverted (a
\* Move with heading + 180 brought into (-180,180], a Lift with its
\* direction flipped, distances unchanged): first the events of c from last
\* to first, then those of c-1, down to d+1; the commands issued are a
\* prefix of that plan.
C11_BackwardPlanIsInvertedReverse ==
    (nav_dest >= 1 /\ nav_dest < nav_from) =>
        LET total == OffsetOf(nav_dest, nav_from + 1)
        IN /\ Len(nav_plan) = total
           /\ \A k \in (nav_dest + 1)..nav_from :
                \A j \in 1..Len(nav_session[k].movements_to_here) :
                   nav_plan[total + 1 - (OffsetOf(nav_dest, k) + j)]
                       = Inverted(nav_session[k].movements_to_here[j])
           /\ nav_issued = SubSeq(nav_plan, 1, Len(nav_issued))

\* a backward replay from the third to the first waypoint has completed,
\* over a segment of two events and a segment that holds a Move
C11_Witness ==
    /\ nav_pc = "menu"
    /\ nav_from = 3
    /\ nav_dest = 1
    /\ nav_current = 1
    /\ Len(nav_session[3].movements_to_here) = 2
    /\ Len(nav_session[2].movements_to_here) >= 1
    /\ nav_session[2].movements_to_here[1].type = "move"
    /\ nav_issued = nav_plan
    /\ Len(nav_issued) >= 3

\* a forward replay c -> d directly followed by the backward replay d -> c
RoundTrip ==
    /\ Len(nav_trips) = 2
    /\ nav_trips[1].from < nav_trips[1].dest
    /\ nav_trips[2].from = nav_trips[1].dest
    /\ nav_trips[2].dest = nav_trips[1].from

SamePosition(p, q) == p.x = q.x /\ p.y = q.y /\ p.z = q.z

SameHeading(h, g) == (h - g) % 360 = 0

Moves(plan) == {i \in 1..Len(plan) : plan[i].type = "move"}

C13_DoubleInversionIsIdentity ==
    document # <<>> =>
        \A m \in DocumentRecords(document[1]) :
            InvertEvent(InvertEvent(m)) = m

\* ======================================================== interface claims

\* C14: in the navigation loop the current waypoint index of a loaded
\* session changes only in the step that completes a replay whose every
\* command was issued and succeeded, and it becomes the destination index
\* of that replay; a step that ends a navigation as failed or rejected
\* leaves the index as it was.
C14_ContextChangesOnlyOnSuccess ==
    [][/\ (nav_current # 0 /\ nav_current' # nav_current) =>
             /\ nav_pc = "replaying"
             /\ nav_issued = nav_plan
             /\ nav_result = "replaying"
             /\ nav_result' = "success"
             /\ nav_current' = nav_dest
             /\ nav_session[nav_dest].id = nav_request[Len(nav_request)]
       /\ (nav_result' \in {"failed", "rejected"} /\ nav_result' # nav_result)
             => nav_current' = nav_current]_vars

\* after a completed replay to the last waypoint, a second replay has
\* failed at a later command than its first and the index is still the last
C14_Witness ==
    /\ nav_result = "failed"
    /\ loop_count = 1
    /\ nav_current = Len(nav_session)
    /\ nav_current = 3
    /\ nav_from = 3
    /\ nav_dest = 1
    /\ Len(nav_issued) >= 2
    /\ nav_pc = "closed"

\* the list is on the operator's screen
Offered == nav_pc \in {"battery", "prompt"}

\* C15: whenever the destination list is offered (after the load, with the
\* first waypoint current, and after every completed replay) it holds every
\* waypoint of the session except the current one, once each, in session
\* order, each as the pair of its id and its name.
C15_DestinationsExcludeCurrent ==
    Offered =>
        /\ Len(nav_destinations) = Len(nav_session) - 1
        /\ \A i \in 1..Len(nav_destinations) :
              LET k == IF i < nav_current THEN i ELSE i + 1
              IN nav_destinations[i]
                     = <<nav_session[k].id, nav_session[k].name>>
        /\ \A k \in 1..Len(nav_session) :
              Cardinality({i \in 1..Len(nav_destinations) :
                              nav_destinations[i][1] = nav_session[k].id})
                  = IF k = nav_current THEN 0 ELSE 1
        /\ (loop_count = 0 => nav_current = 1)
        /\ (loop_count > 0 => nav_current = nav_dest)

\* after a completed replay to the second of three waypoints the list of
\* the first and the third is offered
C15_Witness ==
    /\ nav_pc = "prompt"
    /\ loop_count = 1
    /\ nav_result = "success"
    /\ nav_current = 2
    /\ Len(nav_session) = 3
    /\ Len(nav_destinations) = 2
    /\ nav_destinations[2][1] = WaypointId(3)

\* a line was read at the navigation prompt in this step
LineRead == nav_pc = "prompt" /\ nav_input' # <<>>

\* the line is a number that selects an entry of the list on the screen
Selects(line) ==
    /\ line.kind = "number"
    /\ line.n >= 1
    /\ line.n <= Len(nav_destinations)

\* C16: navigate_to_waypoint is called only in a step that reads a number
\* from 1 to the length of the destination list offered in this iteration,
\* and with the id of that entry, which is a waypoint of the session other
\* than the current one, so the call is never rejected; a line that is
\* neither 'q', 'r' nor such a number (0, a negative or too large number,
\* other text) leads back to the prompt's battery check with no call made,
\* no command issued and the vehicle where it was.
C16_OnlyListedDestinations ==
    [][/\ nav_request' # nav_request =>
             /\ LineRead
             /\ Selects(nav_input'[1])
             /\ nav_request'
                    = Append(nav_request, nav_destinations[nav_input'[1].n][1])
             /\ \E k \in 1..Len(nav_session) :
                    /\ k # nav_current
                    /\ nav_session[k].id = nav_request'[Len(nav_request')]
             /\ nav_result' = "replaying"
       /\ (/\ LineRead
           /\ ~Selects(nav_input'[1])
           /\ nav_input'[1] \notin {Typed("q"), Typed("Q"), Typed("r")}) =>
             /\ nav_pc' = "battery"
             /\ UNCHANGED <<nav_request, nav_issued, nav_plan, nav_pose,
                            nav_current, nav_result>>]_vars

\* after one completed replay the number 0 has been typed and turned down
C16_Witness ==
    /\ nav_pc = "battery"
    /\ nav_input = <<Number(0)>>
    /\ loop_count = 1
    /\ Len(nav_request) = 1
    /\ nav_result = "success"

\* run() of the interface is over or at its finally
LoopEnded == {"closed", "cleanup_land", "cleanup_end", "exited"}

\* C17: a step that issues a command issues exactly the next command of
\* the plan, during a replay; the step in which a replay ends short of its
\* arrival reports the failure; and once a failure is reported no command
\* is issued again (none retried, none of the rest of the plan), no further
\* navigate_to_waypoint call is made, the context stays, and the loop has
\* ended.
C17_FailureAbortsReplay ==
    [][/\ nav_issued' \notin {nav_issued, <<>>} =>
             /\ nav_pc = "replaying"
             /\ nav_result = "replaying"
             /\ Len(nav_issued) < Len(nav_plan)
             /\ nav_issued'
                    = Append(nav_issued, nav_plan[Len(nav_issued) + 1])
             /\ nav_issued' = SubSeq(nav_plan, 1, Len(nav_issued'))
       /\ (nav_pc = "replaying" /\ nav_pc' \in LoopEnded) =>
             nav_result' = "failed"
       /\ nav_result = "failed" =>
             /\ UNCHANGED <<nav_issued, nav_request, nav_result, nav_plan,
                            nav_current, nav_pose, loop_count>>
             /\ nav_pc \in LoopEnded
             /\ nav_pc' \in LoopEnded]_vars

\* the second of four commands has failed; the application has exited with
\* the last two never issued
C17_Witness ==
    /\ nav_result = "failed"
    /\ nav_pc = "exited"
    /\ Len(nav_plan) = 4
    /\ Len(nav_issued) = 2
    /\ Len(nav_request) = 1
    /\ nav_current = 1

\* the last battery answer obtained at a prompt is a reading below 10
CriticalReading ==
    /\ nav_battery # <<>>
    /\ nav_battery[1].kind = "int"
    /\ nav_battery[1].val < 10

\* the last battery query of a prompt failed: an exception, or an answer
\* (an error or timeout text) that is no integer
FailedQuery ==
    /\ nav_battery # <<>>
    /\ nav_battery[1].kind \in {"raise", "text"}

\* C18: a battery reading below 10 at the navigation prompt or at the
\* file-selection prompt is obtained while the vehicle is flying and not yet
\* told to land; from then on no line is read at a prompt, no
\* navigate_to_waypoint call is made and no replay command is issued, and
\* when the application exits the land command has been sent.
C18_CriticalBatteryEndsNavigation ==
    [][/\ (CriticalReading' /\ nav_battery' # nav_battery) =>
             /\ nav_pc \in {"battery", "select_battery"}
             /\ is_flying
             /\ ~app_landed
       /\ CriticalReading' =>
             /\ nav_pc' \in LoopEnded
             /\ nav_input' = <<>>
             /\ UNCHANGED <<nav_request, nav_issued, nav_current>>
       /\ (CriticalReading' /\ nav_pc' = "exited") => app_landed']_vars

\* after a completed replay a reading of 9 was obtained at the navigation
\* prompt; the application has exited and the vehicle was told to land
C18_Witness ==
    /\ CriticalReading
    /\ nav_pc = "exited"
    /\ app_landed
    /\ loop_count = 1
    /\ Len(nav_request) = 1
    /\ nav_files = 1

\* C19: when the battery query of a prompt fails (an exception, or a
\* timeout or other answer that is no integer) the prompt ends in that
\* step without a line being read: _get_navigation_choice gives 'quit' and
\* _select_waypoint_file gives None, so the loop (or the load) ends and run()
\* goes to its finally; no line is read, no file loaded and no destination
\* given to navigate_to_waypoint afterwards.
C19_BatteryFailureAbortsPrompt ==
    [][FailedQuery' =>
          /\ nav_pc' \in LoopEnded
          /\ nav_input' = <<>>
          /\ (nav_pc \in {"battery", "select_battery"} => nav_pc' = "closed")
          /\ UNCHANGED <<nav_request, nav_issued, nav_session, nav_current,
                         nav_result>>]_vars

\* the battery query of the file-selection prompt has failed with an answer
\* that is no integer, before any session was loaded
C19_Witness ==
    /\ FailedQuery
    /\ nav_battery[1].kind = "text"
    /\ nav_pc = "closed"
    /\ nav_files = 2
    /\ nav_session = <<>>
    /\ nav_input = <<>>

\* ======================================================= telemetry claims

\* the last step was a key handler that reached the attitude query of
\* start_movement, and the query failed or gave no usable yaw
AttitudeLost ==
    /\ last.op = "key:move"
    /\ last.io # <<>>
    /\ last.io[1].cmd = "start_movement"
    /\ \/ last.io[1].attitude.kind = "raise"
       \/ /\ last.io[1].attitude.kind = "ok"
          /\ \A i \in 1..Len(last.io[1].attitude.parts) :
                ~(/\ last.io[1].attitude.parts[i].key = "yaw"
                  /\ last.io[1].attitude.parts[i].ok)

\* the last step was a battery check of the key loop whose query failed
BatteryLost == last.op = "battery_check" /\ last.exc = "caught"

\* C20: in the capture session, a key handler whose attitude query fails or
\* is malformed still starts the movement, with start heading 0: unless the
\* velocity command itself fails or is interrupted, the slot holds the
\* movement of the key, the velocity command is among the calls of the
\* step, and the key loop goes on; a battery check whose query fails goes
\* on to read the next key, the vehicle still flying.
C20_TelemetryFailuresDoNotAbort ==
    /\ (AttitudeLost /\ last.io[1].rc = "ok") =>
          /\ current_movement =
                <<[type |-> "move",
                   direction |-> KeyDirection(last.io[1].key),
                   start_yaw |-> 0]>>
          /\ add_movement
          /\ activeMovementKey = last.io[1].key
          /\ \E i \in 2..Len(last.io) :
                last.io[i] = RcFor("move", KeyDirection(last.io[1].key))[1]
          /\ last.exc = "none"
          /\ pc = "loop_top"
          /\ is_flying
          /\ steps = <<>>
    /\ BatteryLost =>
          /\ pc = "get_key"
          /\ is_flying
          /\ steps = <<>>
          /\ ~interrupted

\* the attitude query of the first movement of a session raised; the
\* movement to the left is under way with start heading 0
C20_Witness ==
    /\ AttitudeLost
    /\ last.io[1].attitude.kind = "raise"
    /\ last.io[1].rc = "ok"
    /\ last.io[1].key = "a"
    /\ current_movement # <<>>
    /\ current_movement[1].start_yaw = 0
    /\ pc = "loop_top"
    /\ Len(waypoints) = 1

\* ---------------------------------------------------------------- C21
\* C21: writing the session is all-or-nothing: whatever way save_to_json
\* ends, a file exists at the destination path only if it holds the complete
\* document.
C21_WriteIsAllOrNothing ==
    data_file.exists => data_file.chunks = Chunks(SessionData(waypoints))

\* ---------------------------------------------------------------- C22
\* the call of save_to_json has ended and the destination does not hold the
\* complete document
WriteFailed ==
    /\ last.op = "save_to_json"
    /\ ~(data_file.exists /\ data_file.chunks = Chunks(SessionData(waypoints)))

Contains(lines, line) == \E i \in 1..Len(lines) : lines[i] = line

\* C22: a persistence failure is surfaced to the caller: when the
\* destination could not be written, save_to_json ends with an error for
\* run(), and run() does not print that the session was saved.
C22_WriteFailureIsReported ==
    WriteFailed =>
        /\ last.exc # "none"
        /\ ~Contains(printed, "Session complete! Data saved")

\* ---------------------------------------------------------------- C23
MoveFields == {"id", "type", "yaw", "distance", "timestamp"}
LiftFields == {"id", "type", "direction", "distance", "timestamp"}

\* the record p written for the event m
Preserves(p, m) ==
    /\ p.id = m.id
    /\ p.type = m.type
    /\ p.distance = m.distance
    /\ p.timestamp = m.timestamp
    /\ IF m.type = "move"
       THEN DOMAIN p = MoveFields
       ELSE DOMAIN p = LiftFields /\ p.direction = m.direction

\* C23: the written document preserves the session: the waypoints in list
\* order with id and name unchanged, each waypoint's events in recorded order
\* with id, distance and timestamp unchanged; a Move record has a yaw and a
\* distance and neither a direction nor a start heading, a Lift record its
\* direction and distance.
C23_DocumentPreservesSession ==
    document # <<>> =>
        LET d == document[1] IN
        /\ Len(d.waypoints) = Len(waypoints)
        /\ \A k \in 1..Len(waypoints) :
              /\ d.waypoints[k].id = waypoints[k].id
              /\ d.waypoints[k].id = WaypointId(k)
              /\ d.waypoints[k].name = waypoints[k].name
              /\ Len(d.waypoints[k].movements_to_here)
                     = Len(waypoints[k].movements_to_here)
              /\ \A j \in 1..Len(waypoints[k].movements_to_here) :
                    Preserves(d.waypoints[k].movements_to_here[j],
                              waypoints[k].movements_to_here[j])

\* a written session of three waypoints whose last cluster holds a Move
\* followed by a Lift, after a waypoint with a cluster of its own
C23_Witness ==
    /\ document # <<>>
    /\ Len(waypoints) = 3
    /\ Len(waypoints[2].movements_to_here) >= 1
    /\ Len(waypoints[3].movements_to_here) = 2
    /\ waypoints[3].movements_to_here[1].type = "move"
    /\ waypoints[3].movements_to_here[2].type = "lift"
    /\ document[1].waypoints[3].movements_to_here[2].direction
           = waypoints[3].movements_to_here[2].direction
    /\ document[1].waypoints[2].name = DefaultName(2)
    /\ document[1].waypoints[3].name = Name("A")

\* ---------------------------------------------------------------- C24
\* the positions <<k, j>> of the records of a document
RecordPositions(d) ==
    {p \in (1..Len(d.waypoints)) \X (1..Len(created)) :
        p[2] <= Len(d.waypoints[p[1]].movements_to_here)}

\* C24: in every written document session_info.total_waypoints is the number
\* of waypoints of the document and session_info.total_movements the number
\* of records in all the movements_to_here lists of the document.
C24_TotalsMatchDocument ==
    document # <<>> =>
        LET d == document[1] IN
        /\ d.session_info.total_waypoints = Len(d.waypoints)
        /\ d.session_info.total_movements = Cardinality(RecordPositions(d))

\* a written document of three waypoints and four records
C24_Witness ==
    /\ document # <<>>
    /\ Len(document[1].waypoints) = 3
    /\ Cardinality(RecordPositions(document[1])) = 4
    /\ document[1].session_info.total_movements = 4

\* ---------------------------------------------------------------- C25
\* the number a waypoint id spells after its prefix
IdNumber(id) == 100 * id.digits[1] + 10 * id.digits[2] + id.digits[3]

\* C25: waypoint ids are sequential: waypoint_counter is the number of
\* waypoints, the k-th waypoint has the id 'WP_' followed by the three digits
\* of k, the ids increase strictly along the list (none is used twice), and
\* a default name Waypoint_n carries the number of its waypoint's id.
C25_WaypointIdsSequential ==
    /\ waypoint_counter = Len(waypoints)
    /\ \A k \in 1..Len(waypoints) :
          /\ waypoints[k].id.prefix = "WP_"
          /\ Len(waypoints[k].id.digits) = 3
          /\ \A i \in 1..3 : waypoints[k].id.digits[i] \in 0..9
          /\ IdNumber(waypoints[k].id) = k
          /\ \A j \in 1..(k - 1) :
                IdNumber(waypoints[j].id) < IdNumber(waypoints[k].id)
          /\ waypoints[k].name.text = "Waypoint_" =>
                waypoints[k].name.n = IdNumber(waypoints[k].id)

\* three waypoints, the second one named by default at an empty prompt
C25_Witness ==
    /\ Len(waypoints) >= 3
    /\ waypoint_counter = 3
    /\ waypoints[2].name = DefaultName(2)
    /\ waypoints[3].id = WaypointId(3)

\* ---------------------------------------------------------------- C26
\* the key loop has just gone through an iteration in which get_key read
\* nothing
NoKeyRead == last.op = "key:" /\ last.exc = "none"

\* C26: hold to move, release to stop: after an iteration of the key loop
\* in which no key was read no movement is active (the movement that was
\* running has been stopped and recorded).
C26_ReleaseStopsMovement ==
    NoKeyRead => (current_movement = <<>> /\ activeMovementKey = NoKey)

\* ---------------------------------------------------------------- C27
\* the movement the controls screen documents for an arrow key
DocumentedMovement(a) ==
    CASE a = "A" -> <<"lift", "up">>
      [] a = "B" -> <<"lift", "down">>
      [] a = "C" -> <<"rotate", "clockwise">>
      [] a = "D" -> <<"rotate", "anticlockwise">>

ArrowPressed == last.op = "key:arrow"

\* C27: during mapping, pressing an arrow key starts the documented
\* movement (up/down a Lift, left/right a rotation) and does not end the
\* mapping session: after the key is handled the loop goes on and that
\* movement is the active one.
C27_ArrowKeysMove ==
    ArrowPressed =>
        /\ pc = "loop_top"
        /\ current_movement # <<>>
        /\ <<current_movement[1].type, current_movement[1].direction>>
               = DocumentedMovement(last.io[1].pending[3])

\* ---------------------------------------------------------------- C28
\* the key loop has just handled an 'x' that get_key read
XHandled == last.op = "key:x" /\ last.exc = "none"

\* C28: marking with 'x' first stops and records the active movement, so
\* its event belongs to the waypoint being marked: right after an 'x' key
\* is handled no movement is active, the key tracker is cleared and the
\* pending cluster is empty.
C28_MarkClosesCluster ==
    XHandled =>
        /\ current_movement = <<>>
        /\ activeMovementKey = NoKey
        /\ current_waypoint_movements = <<>>

\* ---------------------------------------------------------------- C29
\* the step handles a read of the movement key that is already tracked
SameKeyRead ==
    /\ pc = "get_key"
    /\ last'.op = "key:move"
    /\ last'.exc = "none"
    /\ last'.io = <<>>
    /\ activeMovementKey # NoKey
    /\ activeMovementKey' = activeMovementKey
    /\ current_movement # <<>>

\* the step handles a read of a movement key other than the tracked one
\* while a movement is active
DifferentKeyRead ==
    /\ pc = "get_key"
    /\ last'.op = "key:move"
    /\ last'.exc = "none"
    /\ last'.io # <<>>
    /\ activeMovementKey # NoKey
    /\ last'.io[1].key # activeMovementKey
    /\ current_movement # <<>>

\* C29: a read of the movement key whose movement is active starts no
\* movement and records no event; a read of a different movement key stops
\* and records the current movement and then starts the new one, so that
\* every run of one movement key has one movement and one event.
C29_OneEventPerKeyRun ==
    [][/\ SameKeyRead =>
            UNCHANGED <<current_movement, created, current_waypoint_movements>>
       /\ DifferentKeyRead =>
            /\ Len(created') = Len(created) + 1
            /\ created'[Len(created')].direction = current_movement[1].direction
            /\ current_movement' # <<>>
            /\ current_movement'[1].direction = KeyDirection(last'.io[1].key)
      ]_vars

\* ---------------------------------------------------------------- C30
\* the step reads the line 'r' at the destination prompt
ReloadAsked == nav_pc = "prompt" /\ nav_input' = <<Typed("r")>>

\* C30: the waypoint file can be reloaded only at the start of navigation:
\* once a navigation has completed in the loop, the input 'r' leads back to
\* the prompt and not to the loading of a file, and no step replaces the
\* loaded session or the current waypoint by those of a file.
C30_ReloadOnlyAtStart ==
    [][loop_count >= 1 =>
          /\ ReloadAsked => nav_pc' = "battery"
          /\ nav_session' = nav_session
          /\ nav_pc' \notin {"load", "select_battery", "select_prompt", "loading"}
      ]_vars

\* after a completed navigation the operator has typed 'r' and is asked
\* again
C30_Witness ==
    /\ loop_count >= 1
    /\ nav_input = <<Typed("r")>>
    /\ nav_pc = "battery"
    /\ nav_current # 1

\* ---------------------------------------------------------------- C31
\* no velocity command is among the driver calls io
NoRcIn(io) == \A i \in 1..Len(io) : io[i].cmd # "rc"

\* the step is a start_movement call that passed the already-moving guard
\* and whose velocity command was not delivered: the driver raised
StartCommandRaised ==
    /\ current_movement = <<>>
    /\ last'.op = "start_movement"
    /\ NoRcIn(last'.io)

\* C31: when the velocity command of start_movement raises, the
\* active-movement slot is empty again and the pending cluster is unchanged;
\* a stop_movement called with an empty slot journals nothing, so no later
\* stop_movement records an event for the attempt.
C31_FailedStartLeavesNoTrace ==
    [][/\ StartCommandRaised =>
            /\ current_movement' = <<>>
            /\ current_waypoint_movements' = current_waypoint_movements
            /\ created' = created
       /\ (last'.op = "stop_movement" /\ current_movement = <<>>) =>
            /\ current_movement' = <<>>
            /\ current_waypoint_movements' = current_waypoint_movements
            /\ created' = created
      ]_vars

\* a start_movement call has made its telemetry queries and its velocity
\* command raised, with the event of an earlier movement in the pending
\* cluster
C31_Witness ==
    /\ last.op = "start_movement"
    /\ last.io # <<>>
    /\ NoRcIn(last.io)
    /\ current_movement = <<>>
    /\ Len(created) = 1
    /\ current_waypoint_movements = created

\* ---------------------------------------------------------------- C32
\* C32: with a drone instance, whichever way run() is left (quit, no or
\* unloadable file, critical battery, failed navigation, interrupt,
\* exception), the last vehicle command it has called is
\* send_rc_control(0, 0, 0, 0)
RunLeft == nav_run.called /\ nav_run.exit # "none"

C32_StopIsLastCommand ==
    (RunLeft /\ nav_run.drone # "None") => nav_run.last = <<Rc(0, 0, 0, 0)>>

\* run() has returned after a replay that failed part-way
C32_Witness ==
    /\ RunLeft
    /\ nav_run.drone # "None"
    /\ nav_run.exit = "returned"
    /\ nav_result = "failed"
    /\ nav_issued # <<>>
    /\ nav_run.last = <<Rc(0, 0, 0, 0)>>

\* ---------------------------------------------------------------- C33
\* C33: run() called without a drone instance returns normally: nothing is
\* raised to its caller, no file is loaded and no vehicle command is called
C33_NoDroneReturnsNormally ==
    (RunLeft /\ nav_run.drone = "None") =>
        /\ nav_run.exit = "returned"
        /\ nav_run.last = <<>>
        /\ nav_session = <<>>
        /\ nav_files = 0

\* ---------------------------------------------------------------- C34
\* C34: event conservation: the movements_to_here lists of the waypoints,
\* in waypoint order, followed by the pending cluster, are the events
\* stop_movement created, in creation order
C34_EventConservation ==
    Journal(waypoints) \o current_waypoint_movements = created

\* one event has reached a waypoint and a later one is pending
C34_Witness ==
    /\ Journal(waypoints) # <<>>
    /\ current_waypoint_movements # <<>>
    /\ Len(created) = 2
    /\ Journal(waypoints) \o current_waypoint_movements = created

\* ---------------------------------------------------------------- C35
\* C35: at the end of every iteration of the key loop the key tracker and
\* the recorder agree: activeMovementKey is set exactly when a movement is
\* active
C35_TrackerAgreesWithRecorder ==
    pc = "loop_top" => (activeMovementKey # NoKey <=> current_movement # <<>>)

====
